---------------------------- MODULE Spec2Model ----------------------------
(***************************************************************************)
(* Model of the CICERO article translator (src/app.py): the response       *)
(* sanitizer clean_text, the element extraction, the translate-and-analyse *)
(* action get_translation_and_analysis with its Gateway calls, and the     *)
(* session state kept by main across script runs.                          *)
(*                                                                         *)
(* Text is a sequence of one-character strings, so that every regular      *)
(* expression of the source is evaluated character by character with the   *)
(* leftmost, non-overlapping semantics of Python's re.sub.                 *)
(***************************************************************************)
EXTENDS Integers, Sequences, FiniteSets, TLC

(***************************************************************************)
(* Character classes and small text helpers.                               *)
(***************************************************************************)
\* the characters of str.isspace(), which \s of the re module and str.strip()
\* go by: tab, newline, vertical tab, form feed, carriage return, the
\* separators 0x1c..0x1f, space, and the whitespace outside ASCII.  A
\* character outside ASCII is one element spelled by its escape.
Whitespace ==
  {"\t", "\n", "", "\f", "\r", "", "", "", "", " ",
   "\\u0085", "\\u00a0", "\\u1680", "\\u2000", "\\u2001", "\\u2002", "\\u2003",
   "\\u2004", "\\u2005", "\\u2006", "\\u2007", "\\u2008", "\\u2009", "\\u200a",
   "\\u2028", "\\u2029", "\\u202f", "\\u205f", "\\u3000"}

IsSpace(c) == c \in Whitespace

\* ['"]
IsQuote(c) == c \in {"'", "\""}

SetMin(S) == CHOOSE m \in S : \A n \in S : m <= n

\* the literal lit occurs in s at position i
StartsAt(s, i, lit) ==
  /\ i >= 1
  /\ i + Len(lit) - 1 <= Len(s)
  /\ \A k \in 1..Len(lit) : s[i + k - 1] = lit[k]

\* position after the longest run of characters of S that starts at i
SpanOver(s, i, S) ==
  CHOOSE j \in i..(Len(s) + 1) :
    /\ j > Len(s) \/ s[j] \notin S
    /\ \A k \in i..(j - 1) : s[k] \in S

\* position of the first character of S at or after i (Len(s) + 1 if none)
SpanUntil(s, i, S) ==
  CHOOSE j \in i..(Len(s) + 1) :
    /\ j > Len(s) \/ s[j] \in S
    /\ \A k \in i..(j - 1) : s[k] \notin S

\* position after the longest run of whitespace that starts at i (i itself if none)
SpanSpace(s, i) ==
  CHOOSE j \in i..(Len(s) + 1) :
    /\ j > Len(s) \/ ~IsSpace(s[j])
    /\ \A k \in i..(j - 1) : IsSpace(s[k])

\* re.sub(r'^\s+', '', s)
LStrip(s) == SubSeq(s, SpanSpace(s, 1), Len(s))

\* re.sub(r'\s+$', '', s)
RStrip(s) ==
  LET Keep == {j \in 1..Len(s) : ~IsSpace(s[j])}
  IN IF Keep = {} THEN <<>>
     ELSE SubSeq(s, 1, CHOOSE m \in Keep : \A k \in (m + 1)..Len(s) : IsSpace(s[k]))

\* str.strip()
Strip(s) == LStrip(RStrip(s))

RECURSIVE Join(_, _)
\* sep.join(parts)
Join(parts, sep) ==
  IF Len(parts) = 0 THEN <<>>
  ELSE IF Len(parts) = 1 THEN parts[1]
  ELSE parts[1] \o sep \o Join(Tail(parts), sep)

\* needle in hay
Contains(hay, needle) ==
  \E i \in 1..(Len(hay) - Len(needle) + 1) : StartsAt(hay, i, needle)

(***************************************************************************)
(* re.sub and str.replace: the scan goes left to right, replaces a match   *)
(* where one starts and resumes after it, and copies the character where   *)
(* none starts.                                                            *)
(***************************************************************************)
\* Part[lo, hi, pos] is the output for the positions lo..hi and the scanner's
\* position after them, when the scanner stands at pos on reaching lo
\* (halving keeps the evaluation shallow).  at[i] is the position after the
\* match that starts at i (0 when none), by[i] what replaces that match.
Scan(s, at, by) ==
  LET n == Len(s)
      Part[lo \in 1..n, hi \in 1..n, pos \in 1..(n + 1)] ==
        IF pos > hi THEN <<(<<>>), pos>>
        ELSE IF lo = hi
        THEN LET e == at[lo]
             IN IF e > lo THEN <<by[lo], e>>
                ELSE <<(<<s[lo]>>), lo + 1>>
        ELSE LET mid == (lo + hi) \div 2
                 left == Part[lo, mid, pos]
                 right == Part[mid + 1, hi, left[2]]
             IN <<left[1] \o right[1], right[2]>>
  IN IF n = 0 THEN <<>> ELSE Part[1, n, 1][1]

(***************************************************************************)
(* clean_text, src/app.py lines 42-75, and the cleanup pass of lines       *)
(* 176-180: one re.sub per regular expression, in the order of the source. *)
(* A match is given by the position after it, 0 where none starts.         *)
(***************************************************************************)
TextBlockOpen == <<"T", "e", "x", "t", "B", "l", "o", "c", "k", "(", "t", "e", "x", "t", "=">>

\* TextBlock\(text=['"](.*?)['"]\)   (line 50)
M_TextBlock(s, i) ==
  LET q == i + Len(TextBlockOpen)
      Ends == {j \in (q + 1)..(Len(s) - 1) :
                 /\ IsQuote(s[j])
                 /\ s[j + 1] = ")"
                 /\ \A k \in (q + 1)..(j - 1) : s[k] # "\n"}
  IN IF StartsAt(s, i, TextBlockOpen) /\ q <= Len(s) /\ IsQuote(s[q]) /\ Ends # {}
     THEN SetMin(Ends) + 2
     ELSE 0

\* line 50: re.sub of TextBlock\(text=[\'"](.*?)[\'"]\) -> \1
sub_TextBlock(s) ==
  Scan(s, [i \in 1..Len(s) |-> M_TextBlock(s, i)],
          [i \in 1..Len(s) |-> SubSeq(s, i + Len(TextBlockOpen) + 1, M_TextBlock(s, i) - 3)])

\* \*\*\s*([^*]+?)\s*\*\*   (line 51)
M_Bold(s, i) ==
  LET k == SpanUntil(s, i + 2, {"*"})
  IN IF /\ StartsAt(s, i, <<"*", "*">>)
        /\ k >= i + 3
        /\ StartsAt(s, k, <<"*", "*">>)
     THEN k + 2
     ELSE 0

\* group 1 of the match s[i..e-1] of line 51
R_Bold(s, i, e) ==
  LET body == SubSeq(s, i + 2, e - 3)
  IN IF \A k \in 1..Len(body) : IsSpace(body[k])
     THEN <<body[Len(body)]>>
     ELSE Strip(body)

\* line 51: re.sub of \*\*\s*([^*]+?)\s*\*\* -> \1
sub_Bold(s) ==
  Scan(s, [i \in 1..Len(s) |-> M_Bold(s, i)],
          [i \in 1..Len(s) |-> R_Bold(s, i, M_Bold(s, i))])

\* line 52: re.sub of <userStyle>.*?</userStyle> -> ''
sub_UserStyle(s) ==
  Scan(s, [i \in 1..Len(s) |->
             LET open == <<"<", "u", "s", "e", "r", "S", "t", "y", "l", "e", ">">>
                 close == <<"<", "/", "u", "s", "e", "r", "S", "t", "y", "l", "e", ">">>
                 Ends == {j \in (i + Len(open))..Len(s) :
                            /\ StartsAt(s, j, close)
                            /\ \A k \in (i + Len(open))..(j - 1) : s[k] # "\n"}
             IN IF StartsAt(s, i, open) /\ Ends # {}
                THEN SetMin(Ends) + Len(close)
                ELSE 0],
          [i \in 1..Len(s) |-> <<>>])

\* line 53: re.sub of \(\s*\) -> ''
sub_EmptyParens(s) ==
  Scan(s, [i \in 1..Len(s) |->
             LET j == SpanSpace(s, i + 1)
             IN IF s[i] = "(" /\ j <= Len(s) /\ s[j] = ")" THEN j + 1 ELSE 0],
          [i \in 1..Len(s) |-> <<>>])

\* lines 56 and 73: re.sub of \n{3,} -> \n\n
sub_Newlines3(s) ==
  Scan(s, [i \in 1..Len(s) |->
             LET j == SpanOver(s, i, {"\n"})
             IN IF j - i >= 3 THEN j ELSE 0],
          [i \in 1..Len(s) |-> <<"\n", "\n">>])

\* line 59: re.sub of \s*\n\s* -> \n
sub_NewlineRun(s) ==
  Scan(s, [i \in 1..Len(s) |->
             LET j == SpanSpace(s, i)
             IN IF \E k \in i..(j - 1) : s[k] = "\n" THEN j ELSE 0],
          [i \in 1..Len(s) |-> <<"\n">>])

\* lines 63 and 180: re.sub of >\s+< -> ><
sub_GtSpaceLt(s) ==
  Scan(s, [i \in 1..Len(s) |->
             LET j == SpanSpace(s, i + 1)
             IN IF s[i] = ">" /\ j > i + 1 /\ j <= Len(s) /\ s[j] = "<" THEN j + 1 ELSE 0],
          [i \in 1..Len(s) |-> <<">", "<">>])

\* >\s+([^<])   (line 64): the group may be the last whitespace of the run
M_GtSpaceChar(s, i) ==
  LET j == SpanSpace(s, i + 1)
  IN IF s[i] # ">" \/ j = i + 1 THEN 0
     ELSE IF j <= Len(s) /\ s[j] # "<" THEN j + 1
     ELSE IF j - (i + 1) >= 2 THEN j
     ELSE 0

\* line 64: re.sub of >\s+([^<]) -> >\1
sub_GtSpaceChar(s) ==
  Scan(s, [i \in 1..Len(s) |-> M_GtSpaceChar(s, i)],
          [i \in 1..Len(s) |-> <<">", s[M_GtSpaceChar(s, i) - 1]>>])

\* line 65: re.sub of ([^>])\s+< -> \1<
sub_CharSpaceLt(s) ==
  Scan(s, [i \in 1..Len(s) |->
             LET j == SpanSpace(s, i + 1)
             IN IF s[i] # ">" /\ j > i + 1 /\ j <= Len(s) /\ s[j] = "<" THEN j + 1 ELSE 0],
          [i \in 1..Len(s) |-> <<s[i], "<">>])

\* line 68: re.sub of \s+ -> ' '
sub_Spaces(s) ==
  Scan(s, [i \in 1..Len(s) |-> IF IsSpace(s[i]) THEN SpanSpace(s, i) ELSE 0],
          [i \in 1..Len(s) |-> <<" ">>])

\* line 69: re.sub of \. ([A-Z]) -> .\n\n\1
sub_DotCapital(s) ==
  Scan(s, [i \in 1..Len(s) |->
             IF /\ i + 2 <= Len(s)
                /\ s[i] = "."
                /\ s[i + 1] = " "
                /\ s[i + 2] \in {"A", "B", "C", "D", "E", "F", "G", "H", "I", "J", "K", "L", "M",
                                 "N", "O", "P", "Q", "R", "S", "T", "U", "V", "W", "X", "Y", "Z"}
             THEN i + 3
             ELSE 0],
          [i \in 1..Len(s) |-> <<".", "\n", "\n", s[i + 2]>>])

\* line 176: re.sub of ['"]?,?\s*type=['"]text['"] -> ''
sub_TypeText(s) ==
  Scan(s, [i \in 1..Len(s) |->
             LET a == IF IsQuote(s[i]) THEN i + 1 ELSE i
                 b == IF a <= Len(s) /\ s[a] = "," THEN a + 1 ELSE a
                 c == SpanSpace(s, b)
             IN IF /\ StartsAt(s, c, <<"t", "y", "p", "e", "=">>)
                   /\ c + 10 <= Len(s)
                   /\ IsQuote(s[c + 5])
                   /\ StartsAt(s, c + 6, <<"t", "e", "x", "t">>)
                   /\ IsQuote(s[c + 10])
                THEN c + 11
                ELSE 0],
          [i \in 1..Len(s) |-> <<>>])

\* line 177: re.sub of ',\s*$ -> ''
sub_QuoteCommaEnd(s) ==
  Scan(s, [i \in 1..Len(s) |->
             IF StartsAt(s, i, <<"'", ",">>) /\ SpanSpace(s, i + 2) > Len(s)
             THEN Len(s) + 1
             ELSE 0],
          [i \in 1..Len(s) |-> <<>>])

\* line 178: re.sub of ^' -> ''
sub_LeadingQuote(s) ==
  Scan(s, [i \in 1..Len(s) |-> IF i = 1 /\ s[i] = "'" THEN 2 ELSE 0],
          [i \in 1..Len(s) |-> <<>>])

\* line 179: re.sub of ,\s*$ -> ''
sub_CommaEnd(s) ==
  Scan(s, [i \in 1..Len(s) |->
             IF s[i] = "," /\ SpanSpace(s, i + 1) > Len(s) THEN Len(s) + 1 ELSE 0],
          [i \in 1..Len(s) |-> <<>>])

\* the two shapes clean_text accepts: a str, or a list whose items are
\* already given by their str()
StrText(s) == [kind |-> "str", val |-> s]
ListText(items) == [kind |-> "list", val |-> items]

\* lines 50-53: remove TextBlock artifacts
StripArtifacts(s) ==
  LET t1 == sub_TextBlock(s)
      t2 == sub_Bold(t1)
      t3 == sub_UserStyle(t2)
  IN sub_EmptyParens(t3)

\* lines 56-59: fix spacing issues
FixSpacing(s) ==
  LET t1 == sub_Newlines3(s)
      t2 == LStrip(t1)
      t3 == RStrip(t2)
  IN sub_NewlineRun(t3)

\* lines 61-65: whitespace around tags, HTML kept
HtmlSpacing(s) ==
  LET t1 == sub_GtSpaceLt(s)
      t2 == sub_GtSpaceChar(t1)
  IN sub_CharSpaceLt(t2)

\* lines 66-69: plain text, sentence spacing
PlainSpacing(s) ==
  sub_DotCapital(sub_Spaces(s))

\* lines 42-75; lines 44-47: a list is joined by spaces
clean_text(text, preserve_html) ==
  LET t1 == FixSpacing(StripArtifacts(IF text.kind = "list" THEN Join(text.val, <<" ">>)
                                      ELSE text.val))
      t2 == IF preserve_html THEN HtmlSpacing(t1) ELSE PlainSpacing(t1)
  IN sub_Newlines3(Strip(t2))

(***************************************************************************)
(* String literals of src/app.py, character by character.                  *)
(***************************************************************************)
\* "Norwegian" (lines 249-250)
Norwegian ==
  <<"N", "o", "r", "w", "e", "g", "i", "a", "n">>

\* "English" (lines 249-250)
English ==
  <<"E", "n", "g", "l", "i", "s", "h">>

\* f"Failed to fetch URL: {str(e)}" (line 38)
FailedToFetch ==
  <<"F", "a", "i", "l", "e", "d", " ", "t", "o", " ", "f", "e", "t", "c", "h", " ", "U",
    "R", "L", ":", " ">>

\* f"Error processing article: {str(e)}" (line 40)
ErrorProcessing ==
  <<"E", "r", "r", "o", "r", " ", "p", "r", "o", "c", "e", "s", "s", "i", "n", "g", " ",
    "a", "r", "t", "i", "c", "l", "e", ":", " ">>

\* "No article content found" (line 34)
NoArticleContent ==
  <<"N", "o", " ", "a", "r", "t", "i", "c", "l", "e", " ", "c", "o", "n", "t", "e", "n",
    "t", " ", "f", "o", "u", "n", "d">>

\* f"Error fetching article: {str(e)}" (line 270)
ErrorFetching ==
  <<"E", "r", "r", "o", "r", " ", "f", "e", "t", "c", "h", "i", "n", "g", " ", "a", "r",
    "t", "i", "c", "l", "e", ":", " ">>

\* f"Translation error: {str(e)}" (line 214)
TranslationError ==
  <<"T", "r", "a", "n", "s", "l", "a", "t", "i", "o", "n", " ", "e", "r", "r", "o", "r",
    ":", " ">>

\* class of the article's text blocks (lines 24 and 84)
TextBlockClass ==
  <<"s", "t", "y", "l", "e", "s", "_", "t", "e", "x", "t", "B", "l", "o", "c", "k", "_",
    "_", "_", "V", "S", "u", "1">>

(***************************************************************************)
(* BeautifulSoup(markup, 'html.parser') of lines 13 and 79, as bs4 4.12    *)
(* drives Python's html.parser: the markup is cut into pieces (start tags, *)
(* end tags, comments, data), the pieces are nested into elements, and an  *)
(* element is written again by str(elem) and read by get_text(strip=True). *)
(* Covered: tag and attribute names lowered as str.lower() lowers them,    *)
(* attributes in either quoting or bare, the character references of       *)
(* html.entities.html5, void and self-closed elements, comments, doctype,  *)
(* processing instructions and marked sections (<![...]>), the raw text    *)
(* of script and style elements, the strings that get_text leaves out      *)
(* (script, style, template, rt, rp), end tags that close several          *)
(* elements or none, and the markup the parser rejects.  Not covered:      *)
(* markup given as bytes (the program passes str), and source positions    *)
(* (sourceline, sourcepos) of the elements, which the program never reads. *)
(***************************************************************************)
\* the elements of set S of positions, in increasing order
Ascending(S) ==
  [k \in 1..Cardinality(S) |-> CHOOSE x \in S : Cardinality({y \in S : y < x}) = k - 1]

RECURSIVE Flatten(_)
Flatten(seqs) ==
  IF Len(seqs) = 0 THEN <<>> ELSE Head(seqs) \o Flatten(Tail(seqs))

\* chr(32) .. chr(126)
Printable ==
  <<" ", "!", "\"", "#", "$", "%", "&", "'", "(", ")", "*", "+", ",", "-", ".", "/", "0", "1", "2", "3", "4", "5", "6", "7", "8", "9", ":", ";", "<", "=", ">", "?", "@", "A", "B", "C", "D", "E", "F", "G", "H", "I", "J", "K", "L", "M", "N", "O",
    "P", "Q", "R", "S", "T", "U", "V", "W", "X", "Y", "Z", "[", "\\", "]", "^", "_", "\\u0060", "a", "b", "c", "d", "e", "f", "g", "h", "i", "j", "k", "l", "m", "n", "o", "p", "q", "r", "s", "t", "u", "v", "w", "x", "y", "z", "{", "|", "}", "~">>

HexDigits ==
  <<"0", "1", "2", "3", "4", "5", "6", "7", "8", "9", "a", "b", "c", "d", "e", "f">>

\* [a-zA-Z]
Letters == {Printable[k] : k \in (34..59) \cup (66..91)}

\* [0-9]
DigitChars == {Printable[k] : k \in 17..26}

\* [0-9a-fA-F]
HexChars == DigitChars \cup {Printable[k] : k \in (34..39) \cup (66..71)}

\* int(digits, base)
RECURSIVE Number(_, _)
Number(digits, base) ==
  IF digits = <<>> THEN 0
  ELSE Number(SubSeq(digits, 1, Len(digits) - 1), base) * base
         + (CHOOSE v \in 0..15 :
              \/ HexDigits[v + 1] = digits[Len(digits)]
              \/ v >= 10 /\ Printable[v + 24] = digits[Len(digits)])

Hex(n, k) == HexDigits[((n \div k) % 16) + 1]

\* chr(n): a character outside ASCII, an ASCII control character that is no
\* whitespace, and the grave accent, which no string of the module can
\* hold, are one element spelled by the escape
CodePoint(n) ==
  IF n \in 32..126 THEN Printable[n - 31]
  ELSE IF n = 9 THEN "\t"
  ELSE IF n = 10 THEN "\n"
  ELSE IF n = 11 THEN ""
  ELSE IF n = 12 THEN "\f"
  ELSE IF n = 13 THEN "\r"
  ELSE IF n = 28 THEN ""
  ELSE IF n = 29 THEN ""
  ELSE IF n = 30 THEN ""
  ELSE IF n = 31 THEN ""
  ELSE IF n < 65536
  THEN "\\u" \o Hex(n, 4096) \o Hex(n, 256) \o Hex(n, 16) \o Hex(n, 1)
  ELSE "\\U00" \o Hex(n, 1048576) \o Hex(n, 65536) \o Hex(n, 4096) \o Hex(n, 256)
         \o Hex(n, 16) \o Hex(n, 1)

\* ord(c): the number in the escape, or the place of the character in ASCII
Ord(c) ==
  IF Len(c) > 1
  THEN Number([k \in 1..(Len(c) - 2) |-> SubSeq(c, k + 2, k + 2)], 16)
  ELSE IF \E k \in 1..95 : Printable[k] = c
  THEN 31 + (CHOOSE k \in 1..95 : Printable[k] = c)
  ELSE CHOOSE n \in (9..13) \cup (28..31) : CodePoint(n) = c

\* The character properties of the interpreter's Unicode database (14.0.0)
\* that str.lower() and repr() go by, as sets of ranges of code points.
\* str.lower(): the characters lo, lo + step, ..., hi have the lowercase at
\* distance delta, as <<lo, hi, step, delta>>
ToLowerRuns ==
  {
   <<65, 90, 1, 32>>, <<192, 214, 1, 32>>, <<216, 222, 1, 32>>, <<256, 302, 2, 1>>,
   <<306, 310, 2, 1>>, <<313, 327, 2, 1>>, <<330, 374, 2, 1>>, <<376, 376, 1, -121>>,
   <<377, 381, 2, 1>>, <<385, 385, 1, 210>>, <<386, 388, 2, 1>>, <<390, 390, 1, 206>>,
   <<391, 391, 1, 1>>, <<393, 394, 1, 205>>, <<395, 395, 1, 1>>, <<398, 398, 1, 79>>,
   <<399, 399, 1, 202>>, <<400, 400, 1, 203>>, <<401, 401, 1, 1>>, <<403, 403, 1, 205>>,
   <<404, 404, 1, 207>>, <<406, 406, 1, 211>>, <<407, 407, 1, 209>>, <<408, 408, 1, 1>>,
   <<412, 412, 1, 211>>, <<413, 413, 1, 213>>, <<415, 415, 1, 214>>, <<416, 420, 2, 1>>,
   <<422, 422, 1, 218>>, <<423, 423, 1, 1>>, <<425, 425, 1, 218>>, <<428, 428, 1, 1>>,
   <<430, 430, 1, 218>>, <<431, 431, 1, 1>>, <<433, 434, 1, 217>>, <<435, 437, 2, 1>>,
   <<439, 439, 1, 219>>, <<440, 440, 1, 1>>, <<444, 444, 1, 1>>, <<452, 452, 1, 2>>,
   <<453, 453, 1, 1>>, <<455, 455, 1, 2>>, <<456, 456, 1, 1>>, <<458, 458, 1, 2>>,
   <<459, 475, 2, 1>>, <<478, 494, 2, 1>>, <<497, 497, 1, 2>>, <<498, 500, 2, 1>>,
   <<502, 502, 1, -97>>, <<503, 503, 1, -56>>, <<504, 542, 2, 1>>, <<544, 544, 1, -130>>,
   <<546, 562, 2, 1>>, <<570, 570, 1, 10795>>, <<571, 571, 1, 1>>, <<573, 573, 1, -163>>,
   <<574, 574, 1, 10792>>, <<577, 577, 1, 1>>, <<579, 579, 1, -195>>, <<580, 580, 1, 69>>,
   <<581, 581, 1, 71>>, <<582, 590, 2, 1>>, <<880, 882, 2, 1>>, <<886, 886, 1, 1>>,
   <<895, 895, 1, 116>>, <<902, 902, 1, 38>>, <<904, 906, 1, 37>>, <<908, 908, 1, 64>>,
   <<910, 911, 1, 63>>, <<913, 929, 1, 32>>, <<931, 939, 1, 32>>, <<975, 975, 1, 8>>,
   <<984, 1006, 2, 1>>, <<1012, 1012, 1, -60>>, <<1015, 1015, 1, 1>>, <<1017, 1017, 1, -7>>,
   <<1018, 1018, 1, 1>>, <<1021, 1023, 1, -130>>, <<1024, 1039, 1, 80>>, <<1040, 1071, 1, 32>>,
   <<1120, 1152, 2, 1>>, <<1162, 1214, 2, 1>>, <<1216, 1216, 1, 15>>, <<1217, 1229, 2, 1>>,
   <<1232, 1326, 2, 1>>, <<1329, 1366, 1, 48>>, <<4256, 4293, 1, 7264>>, <<4295, 4295, 1, 7264>>,
   <<4301, 4301, 1, 7264>>, <<5024, 5103, 1, 38864>>, <<5104, 5109, 1, 8>>, <<7312, 7354, 1, -3008>>,
   <<7357, 7359, 1, -3008>>, <<7680, 7828, 2, 1>>, <<7838, 7838, 1, -7615>>, <<7840, 7934, 2, 1>>,
   <<7944, 7951, 1, -8>>, <<7960, 7965, 1, -8>>, <<7976, 7983, 1, -8>>, <<7992, 7999, 1, -8>>,
   <<8008, 8013, 1, -8>>, <<8025, 8031, 2, -8>>, <<8040, 8047, 1, -8>>, <<8072, 8079, 1, -8>>,
   <<8088, 8095, 1, -8>>, <<8104, 8111, 1, -8>>, <<8120, 8121, 1, -8>>, <<8122, 8123, 1, -74>>,
   <<8124, 8124, 1, -9>>, <<8136, 8139, 1, -86>>, <<8140, 8140, 1, -9>>, <<8152, 8153, 1, -8>>,
   <<8154, 8155, 1, -100>>, <<8168, 8169, 1, -8>>, <<8170, 8171, 1, -112>>, <<8172, 8172, 1, -7>>,
   <<8184, 8185, 1, -128>>, <<8186, 8187, 1, -126>>, <<8188, 8188, 1, -9>>, <<8486, 8486, 1, -7517>>,
   <<8490, 8490, 1, -8383>>, <<8491, 8491, 1, -8262>>, <<8498, 8498, 1, 28>>, <<8544, 8559, 1, 16>>,
   <<8579, 8579, 1, 1>>, <<9398, 9423, 1, 26>>, <<11264, 11311, 1, 48>>, <<11360, 11360, 1, 1>>,
   <<11362, 11362, 1, -10743>>, <<11363, 11363, 1, -3814>>, <<11364, 11364, 1, -10727>>, <<11367, 11371, 2, 1>>,
   <<11373, 11373, 1, -10780>>, <<11374, 11374, 1, -10749>>, <<11375, 11375, 1, -10783>>, <<11376, 11376, 1, -10782>>,
   <<11378, 11378, 1, 1>>, <<11381, 11381, 1, 1>>, <<11390, 11391, 1, -10815>>, <<11392, 11490, 2, 1>>,
   <<11499, 11501, 2, 1>>, <<11506, 11506, 1, 1>>, <<42560, 42604, 2, 1>>, <<42624, 42650, 2, 1>>,
   <<42786, 42798, 2, 1>>, <<42802, 42862, 2, 1>>, <<42873, 42875, 2, 1>>, <<42877, 42877, 1, -35332>>,
   <<42878, 42886, 2, 1>>, <<42891, 42891, 1, 1>>, <<42893, 42893, 1, -42280>>, <<42896, 42898, 2, 1>>,
   <<42902, 42920, 2, 1>>, <<42922, 42922, 1, -42308>>, <<42923, 42923, 1, -42319>>, <<42924, 42924, 1, -42315>>,
   <<42925, 42925, 1, -42305>>, <<42926, 42926, 1, -42308>>, <<42928, 42928, 1, -42258>>, <<42929, 42929, 1, -42282>>,
   <<42930, 42930, 1, -42261>>, <<42931, 42931, 1, 928>>, <<42932, 42946, 2, 1>>, <<42948, 42948, 1, -48>>,
   <<42949, 42949, 1, -42307>>, <<42950, 42950, 1, -35384>>, <<42951, 42953, 2, 1>>, <<42960, 42960, 1, 1>>,
   <<42966, 42968, 2, 1>>, <<42997, 42997, 1, 1>>, <<65313, 65338, 1, 32>>, <<66560, 66599, 1, 40>>,
   <<66736, 66771, 1, 40>>, <<66928, 66964, 2, 39>>, <<66929, 66938, 1, 39>>, <<66941, 66954, 1, 39>>,
   <<66957, 66962, 1, 39>>, <<66965, 66965, 1, 39>>, <<68736, 68786, 1, 64>>, <<71840, 71871, 1, 32>>,
   <<93760, 93791, 1, 32>>, <<125184, 125217, 1, 34>>
  }

\* the cased characters that are not case-ignorable, as ranges <<lo, hi>>
CasedRanges ==
  {
   <<65, 90>>, <<97, 122>>, <<170, 170>>, <<181, 181>>, <<186, 186>>, <<192, 214>>,
   <<216, 246>>, <<248, 442>>, <<444, 447>>, <<452, 659>>, <<661, 687>>, <<880, 883>>,
   <<886, 887>>, <<891, 893>>, <<895, 895>>, <<902, 902>>, <<904, 906>>, <<908, 908>>,
   <<910, 929>>, <<931, 1013>>, <<1015, 1153>>, <<1162, 1327>>, <<1329, 1366>>, <<1376, 1416>>,
   <<4256, 4293>>, <<4295, 4295>>, <<4301, 4301>>, <<4304, 4346>>, <<4349, 4351>>, <<5024, 5109>>,
   <<5112, 5117>>, <<7296, 7304>>, <<7312, 7354>>, <<7357, 7359>>, <<7424, 7467>>, <<7531, 7543>>,
   <<7545, 7578>>, <<7680, 7957>>, <<7960, 7965>>, <<7968, 8005>>, <<8008, 8013>>, <<8016, 8023>>,
   <<8025, 8025>>, <<8027, 8027>>, <<8029, 8029>>, <<8031, 8061>>, <<8064, 8116>>, <<8118, 8124>>,
   <<8126, 8126>>, <<8130, 8132>>, <<8134, 8140>>, <<8144, 8147>>, <<8150, 8155>>, <<8160, 8172>>,
   <<8178, 8180>>, <<8182, 8188>>, <<8450, 8450>>, <<8455, 8455>>, <<8458, 8467>>, <<8469, 8469>>,
   <<8473, 8477>>, <<8484, 8484>>, <<8486, 8486>>, <<8488, 8488>>, <<8490, 8493>>, <<8495, 8500>>,
   <<8505, 8505>>, <<8508, 8511>>, <<8517, 8521>>, <<8526, 8526>>, <<8544, 8575>>, <<8579, 8580>>,
   <<9398, 9449>>, <<11264, 11387>>, <<11390, 11492>>, <<11499, 11502>>, <<11506, 11507>>, <<11520, 11557>>,
   <<11559, 11559>>, <<11565, 11565>>, <<42560, 42605>>, <<42624, 42651>>, <<42786, 42863>>, <<42865, 42887>>,
   <<42891, 42894>>, <<42896, 42954>>, <<42960, 42961>>, <<42963, 42963>>, <<42965, 42969>>, <<42997, 42998>>,
   <<43002, 43002>>, <<43824, 43866>>, <<43872, 43880>>, <<43888, 43967>>, <<64256, 64262>>, <<64275, 64279>>,
   <<65313, 65338>>, <<65345, 65370>>, <<66560, 66639>>, <<66736, 66771>>, <<66776, 66811>>, <<66928, 66938>>,
   <<66940, 66954>>, <<66956, 66962>>, <<66964, 66965>>, <<66967, 66977>>, <<66979, 66993>>, <<66995, 67001>>,
   <<67003, 67004>>, <<68736, 68786>>, <<68800, 68850>>, <<71840, 71903>>, <<93760, 93823>>, <<119808, 119892>>,
   <<119894, 119964>>, <<119966, 119967>>, <<119970, 119970>>, <<119973, 119974>>, <<119977, 119980>>, <<119982, 119993>>,
   <<119995, 119995>>, <<119997, 120003>>, <<120005, 120069>>, <<120071, 120074>>, <<120077, 120084>>, <<120086, 120092>>,
   <<120094, 120121>>, <<120123, 120126>>, <<120128, 120132>>, <<120134, 120134>>, <<120138, 120144>>, <<120146, 120485>>,
   <<120488, 120512>>, <<120514, 120538>>, <<120540, 120570>>, <<120572, 120596>>, <<120598, 120628>>, <<120630, 120654>>,
   <<120656, 120686>>, <<120688, 120712>>, <<120714, 120744>>, <<120746, 120770>>, <<120772, 120779>>, <<122624, 122633>>,
   <<122635, 122654>>, <<125184, 125251>>, <<127280, 127305>>, <<127312, 127337>>, <<127344, 127369>>
  }

\* the case-ignorable characters
CaseIgnorableRanges ==
  {
   <<39, 39>>, <<46, 46>>, <<58, 58>>, <<94, 94>>, <<96, 96>>, <<168, 168>>,
   <<173, 173>>, <<175, 175>>, <<180, 180>>, <<183, 184>>, <<688, 879>>, <<884, 885>>,
   <<890, 890>>, <<900, 901>>, <<903, 903>>, <<1155, 1161>>, <<1369, 1369>>, <<1375, 1375>>,
   <<1425, 1469>>, <<1471, 1471>>, <<1473, 1474>>, <<1476, 1477>>, <<1479, 1479>>, <<1524, 1524>>,
   <<1536, 1541>>, <<1552, 1562>>, <<1564, 1564>>, <<1600, 1600>>, <<1611, 1631>>, <<1648, 1648>>,
   <<1750, 1757>>, <<1759, 1768>>, <<1770, 1773>>, <<1807, 1807>>, <<1809, 1809>>, <<1840, 1866>>,
   <<1958, 1968>>, <<2027, 2037>>, <<2042, 2042>>, <<2045, 2045>>, <<2070, 2093>>, <<2137, 2139>>,
   <<2184, 2184>>, <<2192, 2193>>, <<2200, 2207>>, <<2249, 2306>>, <<2362, 2362>>, <<2364, 2364>>,
   <<2369, 2376>>, <<2381, 2381>>, <<2385, 2391>>, <<2402, 2403>>, <<2417, 2417>>, <<2433, 2433>>,
   <<2492, 2492>>, <<2497, 2500>>, <<2509, 2509>>, <<2530, 2531>>, <<2558, 2558>>, <<2561, 2562>>,
   <<2620, 2620>>, <<2625, 2626>>, <<2631, 2632>>, <<2635, 2637>>, <<2641, 2641>>, <<2672, 2673>>,
   <<2677, 2677>>, <<2689, 2690>>, <<2748, 2748>>, <<2753, 2757>>, <<2759, 2760>>, <<2765, 2765>>,
   <<2786, 2787>>, <<2810, 2815>>, <<2817, 2817>>, <<2876, 2876>>, <<2879, 2879>>, <<2881, 2884>>,
   <<2893, 2893>>, <<2901, 2902>>, <<2914, 2915>>, <<2946, 2946>>, <<3008, 3008>>, <<3021, 3021>>,
   <<3072, 3072>>, <<3076, 3076>>, <<3132, 3132>>, <<3134, 3136>>, <<3142, 3144>>, <<3146, 3149>>,
   <<3157, 3158>>, <<3170, 3171>>, <<3201, 3201>>, <<3260, 3260>>, <<3263, 3263>>, <<3270, 3270>>,
   <<3276, 3277>>, <<3298, 3299>>, <<3328, 3329>>, <<3387, 3388>>, <<3393, 3396>>, <<3405, 3405>>,
   <<3426, 3427>>, <<3457, 3457>>, <<3530, 3530>>, <<3538, 3540>>, <<3542, 3542>>, <<3633, 3633>>,
   <<3636, 3642>>, <<3654, 3662>>, <<3761, 3761>>, <<3764, 3772>>, <<3782, 3782>>, <<3784, 3789>>,
   <<3864, 3865>>, <<3893, 3893>>, <<3895, 3895>>, <<3897, 3897>>, <<3953, 3966>>, <<3968, 3972>>,
   <<3974, 3975>>, <<3981, 3991>>, <<3993, 4028>>, <<4038, 4038>>, <<4141, 4144>>, <<4146, 4151>>,
   <<4153, 4154>>, <<4157, 4158>>, <<4184, 4185>>, <<4190, 4192>>, <<4209, 4212>>, <<4226, 4226>>,
   <<4229, 4230>>, <<4237, 4237>>, <<4253, 4253>>, <<4348, 4348>>, <<4957, 4959>>, <<5906, 5908>>,
   <<5938, 5939>>, <<5970, 5971>>, <<6002, 6003>>, <<6068, 6069>>, <<6071, 6077>>, <<6086, 6086>>,
   <<6089, 6099>>, <<6103, 6103>>, <<6109, 6109>>, <<6155, 6159>>, <<6211, 6211>>, <<6277, 6278>>,
   <<6313, 6313>>, <<6432, 6434>>, <<6439, 6440>>, <<6450, 6450>>, <<6457, 6459>>, <<6679, 6680>>,
   <<6683, 6683>>, <<6742, 6742>>, <<6744, 6750>>, <<6752, 6752>>, <<6754, 6754>>, <<6757, 6764>>,
   <<6771, 6780>>, <<6783, 6783>>, <<6823, 6823>>, <<6832, 6862>>, <<6912, 6915>>, <<6964, 6964>>,
   <<6966, 6970>>, <<6972, 6972>>, <<6978, 6978>>, <<7019, 7027>>, <<7040, 7041>>, <<7074, 7077>>,
   <<7080, 7081>>, <<7083, 7085>>, <<7142, 7142>>, <<7144, 7145>>, <<7149, 7149>>, <<7151, 7153>>,
   <<7212, 7219>>, <<7222, 7223>>, <<7288, 7293>>, <<7376, 7378>>, <<7380, 7392>>, <<7394, 7400>>,
   <<7405, 7405>>, <<7412, 7412>>, <<7416, 7417>>, <<7468, 7530>>, <<7544, 7544>>, <<7579, 7679>>,
   <<8125, 8125>>, <<8127, 8129>>, <<8141, 8143>>, <<8157, 8159>>, <<8173, 8175>>, <<8189, 8190>>,
   <<8203, 8207>>, <<8216, 8217>>, <<8228, 8228>>, <<8231, 8231>>, <<8234, 8238>>, <<8288, 8292>>,
   <<8294, 8303>>, <<8305, 8305>>, <<8319, 8319>>, <<8336, 8348>>, <<8400, 8432>>, <<11388, 11389>>,
   <<11503, 11505>>, <<11631, 11631>>, <<11647, 11647>>, <<11744, 11775>>, <<11823, 11823>>, <<12293, 12293>>,
   <<12330, 12333>>, <<12337, 12341>>, <<12347, 12347>>, <<12441, 12446>>, <<12540, 12542>>, <<40981, 40981>>,
   <<42232, 42237>>, <<42508, 42508>>, <<42607, 42610>>, <<42612, 42621>>, <<42623, 42623>>, <<42652, 42655>>,
   <<42736, 42737>>, <<42752, 42785>>, <<42864, 42864>>, <<42888, 42890>>, <<42994, 42996>>, <<43000, 43001>>,
   <<43010, 43010>>, <<43014, 43014>>, <<43019, 43019>>, <<43045, 43046>>, <<43052, 43052>>, <<43204, 43205>>,
   <<43232, 43249>>, <<43263, 43263>>, <<43302, 43309>>, <<43335, 43345>>, <<43392, 43394>>, <<43443, 43443>>,
   <<43446, 43449>>, <<43452, 43453>>, <<43471, 43471>>, <<43493, 43494>>, <<43561, 43566>>, <<43569, 43570>>,
   <<43573, 43574>>, <<43587, 43587>>, <<43596, 43596>>, <<43632, 43632>>, <<43644, 43644>>, <<43696, 43696>>,
   <<43698, 43700>>, <<43703, 43704>>, <<43710, 43711>>, <<43713, 43713>>, <<43741, 43741>>, <<43756, 43757>>,
   <<43763, 43764>>, <<43766, 43766>>, <<43867, 43871>>, <<43881, 43883>>, <<44005, 44005>>, <<44008, 44008>>,
   <<44013, 44013>>, <<64286, 64286>>, <<64434, 64450>>, <<65024, 65039>>, <<65043, 65043>>, <<65056, 65071>>,
   <<65106, 65106>>, <<65109, 65109>>, <<65279, 65279>>, <<65287, 65287>>, <<65294, 65294>>, <<65306, 65306>>,
   <<65342, 65342>>, <<65344, 65344>>, <<65392, 65392>>, <<65438, 65439>>, <<65507, 65507>>, <<65529, 65531>>,
   <<66045, 66045>>, <<66272, 66272>>, <<66422, 66426>>, <<67456, 67461>>, <<67463, 67504>>, <<67506, 67514>>,
   <<68097, 68099>>, <<68101, 68102>>, <<68108, 68111>>, <<68152, 68154>>, <<68159, 68159>>, <<68325, 68326>>,
   <<68900, 68903>>, <<69291, 69292>>, <<69446, 69456>>, <<69506, 69509>>, <<69633, 69633>>, <<69688, 69702>>,
   <<69744, 69744>>, <<69747, 69748>>, <<69759, 69761>>, <<69811, 69814>>, <<69817, 69818>>, <<69821, 69821>>,
   <<69826, 69826>>, <<69837, 69837>>, <<69888, 69890>>, <<69927, 69931>>, <<69933, 69940>>, <<70003, 70003>>,
   <<70016, 70017>>, <<70070, 70078>>, <<70089, 70092>>, <<70095, 70095>>, <<70191, 70193>>, <<70196, 70196>>,
   <<70198, 70199>>, <<70206, 70206>>, <<70367, 70367>>, <<70371, 70378>>, <<70400, 70401>>, <<70459, 70460>>,
   <<70464, 70464>>, <<70502, 70508>>, <<70512, 70516>>, <<70712, 70719>>, <<70722, 70724>>, <<70726, 70726>>,
   <<70750, 70750>>, <<70835, 70840>>, <<70842, 70842>>, <<70847, 70848>>, <<70850, 70851>>, <<71090, 71093>>,
   <<71100, 71101>>, <<71103, 71104>>, <<71132, 71133>>, <<71219, 71226>>, <<71229, 71229>>, <<71231, 71232>>,
   <<71339, 71339>>, <<71341, 71341>>, <<71344, 71349>>, <<71351, 71351>>, <<71453, 71455>>, <<71458, 71461>>,
   <<71463, 71467>>, <<71727, 71735>>, <<71737, 71738>>, <<71995, 71996>>, <<71998, 71998>>, <<72003, 72003>>,
   <<72148, 72151>>, <<72154, 72155>>, <<72160, 72160>>, <<72193, 72202>>, <<72243, 72248>>, <<72251, 72254>>,
   <<72263, 72263>>, <<72273, 72278>>, <<72281, 72283>>, <<72330, 72342>>, <<72344, 72345>>, <<72752, 72758>>,
   <<72760, 72765>>, <<72767, 72767>>, <<72850, 72871>>, <<72874, 72880>>, <<72882, 72883>>, <<72885, 72886>>,
   <<73009, 73014>>, <<73018, 73018>>, <<73020, 73021>>, <<73023, 73029>>, <<73031, 73031>>, <<73104, 73105>>,
   <<73109, 73109>>, <<73111, 73111>>, <<73459, 73460>>, <<78896, 78904>>, <<92912, 92916>>, <<92976, 92982>>,
   <<92992, 92995>>, <<94031, 94031>>, <<94095, 94111>>, <<94176, 94177>>, <<94179, 94180>>, <<110576, 110579>>,
   <<110581, 110587>>, <<110589, 110590>>, <<113821, 113822>>, <<113824, 113827>>, <<118528, 118573>>, <<118576, 118598>>,
   <<119143, 119145>>, <<119155, 119170>>, <<119173, 119179>>, <<119210, 119213>>, <<119362, 119364>>, <<121344, 121398>>,
   <<121403, 121452>>, <<121461, 121461>>, <<121476, 121476>>, <<121499, 121503>>, <<121505, 121519>>, <<122880, 122886>>,
   <<122888, 122904>>, <<122907, 122913>>, <<122915, 122916>>, <<122918, 122922>>, <<123184, 123197>>, <<123566, 123566>>,
   <<123628, 123631>>, <<125136, 125142>>, <<125252, 125259>>, <<127995, 127999>>, <<917505, 917505>>, <<917536, 917631>>,
   <<917760, 917999>>
  }

\* the characters outside ASCII for which str.isprintable() is false
NonPrintableRanges ==
  {
   <<128, 160>>, <<173, 173>>, <<888, 889>>, <<896, 899>>, <<907, 907>>, <<909, 909>>,
   <<930, 930>>, <<1328, 1328>>, <<1367, 1368>>, <<1419, 1420>>, <<1424, 1424>>, <<1480, 1487>>,
   <<1515, 1518>>, <<1525, 1541>>, <<1564, 1564>>, <<1757, 1757>>, <<1806, 1807>>, <<1867, 1868>>,
   <<1970, 1983>>, <<2043, 2044>>, <<2094, 2095>>, <<2111, 2111>>, <<2140, 2141>>, <<2143, 2143>>,
   <<2155, 2159>>, <<2191, 2199>>, <<2274, 2274>>, <<2436, 2436>>, <<2445, 2446>>, <<2449, 2450>>,
   <<2473, 2473>>, <<2481, 2481>>, <<2483, 2485>>, <<2490, 2491>>, <<2501, 2502>>, <<2505, 2506>>,
   <<2511, 2518>>, <<2520, 2523>>, <<2526, 2526>>, <<2532, 2533>>, <<2559, 2560>>, <<2564, 2564>>,
   <<2571, 2574>>, <<2577, 2578>>, <<2601, 2601>>, <<2609, 2609>>, <<2612, 2612>>, <<2615, 2615>>,
   <<2618, 2619>>, <<2621, 2621>>, <<2627, 2630>>, <<2633, 2634>>, <<2638, 2640>>, <<2642, 2648>>,
   <<2653, 2653>>, <<2655, 2661>>, <<2679, 2688>>, <<2692, 2692>>, <<2702, 2702>>, <<2706, 2706>>,
   <<2729, 2729>>, <<2737, 2737>>, <<2740, 2740>>, <<2746, 2747>>, <<2758, 2758>>, <<2762, 2762>>,
   <<2766, 2767>>, <<2769, 2783>>, <<2788, 2789>>, <<2802, 2808>>, <<2816, 2816>>, <<2820, 2820>>,
   <<2829, 2830>>, <<2833, 2834>>, <<2857, 2857>>, <<2865, 2865>>, <<2868, 2868>>, <<2874, 2875>>,
   <<2885, 2886>>, <<2889, 2890>>, <<2894, 2900>>, <<2904, 2907>>, <<2910, 2910>>, <<2916, 2917>>,
   <<2936, 2945>>, <<2948, 2948>>, <<2955, 2957>>, <<2961, 2961>>, <<2966, 2968>>, <<2971, 2971>>,
   <<2973, 2973>>, <<2976, 2978>>, <<2981, 2983>>, <<2987, 2989>>, <<3002, 3005>>, <<3011, 3013>>,
   <<3017, 3017>>, <<3022, 3023>>, <<3025, 3030>>, <<3032, 3045>>, <<3067, 3071>>, <<3085, 3085>>,
   <<3089, 3089>>, <<3113, 3113>>, <<3130, 3131>>, <<3141, 3141>>, <<3145, 3145>>, <<3150, 3156>>,
   <<3159, 3159>>, <<3163, 3164>>, <<3166, 3167>>, <<3172, 3173>>, <<3184, 3190>>, <<3213, 3213>>,
   <<3217, 3217>>, <<3241, 3241>>, <<3252, 3252>>, <<3258, 3259>>, <<3269, 3269>>, <<3273, 3273>>,
   <<3278, 3284>>, <<3287, 3292>>, <<3295, 3295>>, <<3300, 3301>>, <<3312, 3312>>, <<3315, 3327>>,
   <<3341, 3341>>, <<3345, 3345>>, <<3397, 3397>>, <<3401, 3401>>, <<3408, 3411>>, <<3428, 3429>>,
   <<3456, 3456>>, <<3460, 3460>>, <<3479, 3481>>, <<3506, 3506>>, <<3516, 3516>>, <<3518, 3519>>,
   <<3527, 3529>>, <<3531, 3534>>, <<3541, 3541>>, <<3543, 3543>>, <<3552, 3557>>, <<3568, 3569>>,
   <<3573, 3584>>, <<3643, 3646>>, <<3676, 3712>>, <<3715, 3715>>, <<3717, 3717>>, <<3723, 3723>>,
   <<3748, 3748>>, <<3750, 3750>>, <<3774, 3775>>, <<3781, 3781>>, <<3783, 3783>>, <<3790, 3791>>,
   <<3802, 3803>>, <<3808, 3839>>, <<3912, 3912>>, <<3949, 3952>>, <<3992, 3992>>, <<4029, 4029>>,
   <<4045, 4045>>, <<4059, 4095>>, <<4294, 4294>>, <<4296, 4300>>, <<4302, 4303>>, <<4681, 4681>>,
   <<4686, 4687>>, <<4695, 4695>>, <<4697, 4697>>, <<4702, 4703>>, <<4745, 4745>>, <<4750, 4751>>,
   <<4785, 4785>>, <<4790, 4791>>, <<4799, 4799>>, <<4801, 4801>>, <<4806, 4807>>, <<4823, 4823>>,
   <<4881, 4881>>, <<4886, 4887>>, <<4955, 4956>>, <<4989, 4991>>, <<5018, 5023>>, <<5110, 5111>>,
   <<5118, 5119>>, <<5760, 5760>>, <<5789, 5791>>, <<5881, 5887>>, <<5910, 5918>>, <<5943, 5951>>,
   <<5972, 5983>>, <<5997, 5997>>, <<6001, 6001>>, <<6004, 6015>>, <<6110, 6111>>, <<6122, 6127>>,
   <<6138, 6143>>, <<6158, 6158>>, <<6170, 6175>>, <<6265, 6271>>, <<6315, 6319>>, <<6390, 6399>>,
   <<6431, 6431>>, <<6444, 6447>>, <<6460, 6463>>, <<6465, 6467>>, <<6510, 6511>>, <<6517, 6527>>,
   <<6572, 6575>>, <<6602, 6607>>, <<6619, 6621>>, <<6684, 6685>>, <<6751, 6751>>, <<6781, 6782>>,
   <<6794, 6799>>, <<6810, 6815>>, <<6830, 6831>>, <<6863, 6911>>, <<6989, 6991>>, <<7039, 7039>>,
   <<7156, 7163>>, <<7224, 7226>>, <<7242, 7244>>, <<7305, 7311>>, <<7355, 7356>>, <<7368, 7375>>,
   <<7419, 7423>>, <<7958, 7959>>, <<7966, 7967>>, <<8006, 8007>>, <<8014, 8015>>, <<8024, 8024>>,
   <<8026, 8026>>, <<8028, 8028>>, <<8030, 8030>>, <<8062, 8063>>, <<8117, 8117>>, <<8133, 8133>>,
   <<8148, 8149>>, <<8156, 8156>>, <<8176, 8177>>, <<8181, 8181>>, <<8191, 8207>>, <<8232, 8239>>,
   <<8287, 8303>>, <<8306, 8307>>, <<8335, 8335>>, <<8349, 8351>>, <<8385, 8399>>, <<8433, 8447>>,
   <<8588, 8591>>, <<9255, 9279>>, <<9291, 9311>>, <<11124, 11125>>, <<11158, 11158>>, <<11508, 11512>>,
   <<11558, 11558>>, <<11560, 11564>>, <<11566, 11567>>, <<11624, 11630>>, <<11633, 11646>>, <<11671, 11679>>,
   <<11687, 11687>>, <<11695, 11695>>, <<11703, 11703>>, <<11711, 11711>>, <<11719, 11719>>, <<11727, 11727>>,
   <<11735, 11735>>, <<11743, 11743>>, <<11870, 11903>>, <<11930, 11930>>, <<12020, 12031>>, <<12246, 12271>>,
   <<12284, 12288>>, <<12352, 12352>>, <<12439, 12440>>, <<12544, 12548>>, <<12592, 12592>>, <<12687, 12687>>,
   <<12772, 12783>>, <<12831, 12831>>, <<42125, 42127>>, <<42183, 42191>>, <<42540, 42559>>, <<42744, 42751>>,
   <<42955, 42959>>, <<42962, 42962>>, <<42964, 42964>>, <<42970, 42993>>, <<43053, 43055>>, <<43066, 43071>>,
   <<43128, 43135>>, <<43206, 43213>>, <<43226, 43231>>, <<43348, 43358>>, <<43389, 43391>>, <<43470, 43470>>,
   <<43482, 43485>>, <<43519, 43519>>, <<43575, 43583>>, <<43598, 43599>>, <<43610, 43611>>, <<43715, 43738>>,
   <<43767, 43776>>, <<43783, 43784>>, <<43791, 43792>>, <<43799, 43807>>, <<43815, 43815>>, <<43823, 43823>>,
   <<43884, 43887>>, <<44014, 44015>>, <<44026, 44031>>, <<55204, 55215>>, <<55239, 55242>>, <<55292, 63743>>,
   <<64110, 64111>>, <<64218, 64255>>, <<64263, 64274>>, <<64280, 64284>>, <<64311, 64311>>, <<64317, 64317>>,
   <<64319, 64319>>, <<64322, 64322>>, <<64325, 64325>>, <<64451, 64466>>, <<64912, 64913>>, <<64968, 64974>>,
   <<64976, 65007>>, <<65050, 65055>>, <<65107, 65107>>, <<65127, 65127>>, <<65132, 65135>>, <<65141, 65141>>,
   <<65277, 65280>>, <<65471, 65473>>, <<65480, 65481>>, <<65488, 65489>>, <<65496, 65497>>, <<65501, 65503>>,
   <<65511, 65511>>, <<65519, 65531>>, <<65534, 65535>>, <<65548, 65548>>, <<65575, 65575>>, <<65595, 65595>>,
   <<65598, 65598>>, <<65614, 65615>>, <<65630, 65663>>, <<65787, 65791>>, <<65795, 65798>>, <<65844, 65846>>,
   <<65935, 65935>>, <<65949, 65951>>, <<65953, 65999>>, <<66046, 66175>>, <<66205, 66207>>, <<66257, 66271>>,
   <<66300, 66303>>, <<66340, 66348>>, <<66379, 66383>>, <<66427, 66431>>, <<66462, 66462>>, <<66500, 66503>>,
   <<66518, 66559>>, <<66718, 66719>>, <<66730, 66735>>, <<66772, 66775>>, <<66812, 66815>>, <<66856, 66863>>,
   <<66916, 66926>>, <<66939, 66939>>, <<66955, 66955>>, <<66963, 66963>>, <<66966, 66966>>, <<66978, 66978>>,
   <<66994, 66994>>, <<67002, 67002>>, <<67005, 67071>>, <<67383, 67391>>, <<67414, 67423>>, <<67432, 67455>>,
   <<67462, 67462>>, <<67505, 67505>>, <<67515, 67583>>, <<67590, 67591>>, <<67593, 67593>>, <<67638, 67638>>,
   <<67641, 67643>>, <<67645, 67646>>, <<67670, 67670>>, <<67743, 67750>>, <<67760, 67807>>, <<67827, 67827>>,
   <<67830, 67834>>, <<67868, 67870>>, <<67898, 67902>>, <<67904, 67967>>, <<68024, 68027>>, <<68048, 68049>>,
   <<68100, 68100>>, <<68103, 68107>>, <<68116, 68116>>, <<68120, 68120>>, <<68150, 68151>>, <<68155, 68158>>,
   <<68169, 68175>>, <<68185, 68191>>, <<68256, 68287>>, <<68327, 68330>>, <<68343, 68351>>, <<68406, 68408>>,
   <<68438, 68439>>, <<68467, 68471>>, <<68498, 68504>>, <<68509, 68520>>, <<68528, 68607>>, <<68681, 68735>>,
   <<68787, 68799>>, <<68851, 68857>>, <<68904, 68911>>, <<68922, 69215>>, <<69247, 69247>>, <<69290, 69290>>,
   <<69294, 69295>>, <<69298, 69375>>, <<69416, 69423>>, <<69466, 69487>>, <<69514, 69551>>, <<69580, 69599>>,
   <<69623, 69631>>, <<69710, 69713>>, <<69750, 69758>>, <<69821, 69821>>, <<69827, 69839>>, <<69865, 69871>>,
   <<69882, 69887>>, <<69941, 69941>>, <<69960, 69967>>, <<70007, 70015>>, <<70112, 70112>>, <<70133, 70143>>,
   <<70162, 70162>>, <<70207, 70271>>, <<70279, 70279>>, <<70281, 70281>>, <<70286, 70286>>, <<70302, 70302>>,
   <<70314, 70319>>, <<70379, 70383>>, <<70394, 70399>>, <<70404, 70404>>, <<70413, 70414>>, <<70417, 70418>>,
   <<70441, 70441>>, <<70449, 70449>>, <<70452, 70452>>, <<70458, 70458>>, <<70469, 70470>>, <<70473, 70474>>,
   <<70478, 70479>>, <<70481, 70486>>, <<70488, 70492>>, <<70500, 70501>>, <<70509, 70511>>, <<70517, 70655>>,
   <<70748, 70748>>, <<70754, 70783>>, <<70856, 70863>>, <<70874, 71039>>, <<71094, 71095>>, <<71134, 71167>>,
   <<71237, 71247>>, <<71258, 71263>>, <<71277, 71295>>, <<71354, 71359>>, <<71370, 71423>>, <<71451, 71452>>,
   <<71468, 71471>>, <<71495, 71679>>, <<71740, 71839>>, <<71923, 71934>>, <<71943, 71944>>, <<71946, 71947>>,
   <<71956, 71956>>, <<71959, 71959>>, <<71990, 71990>>, <<71993, 71994>>, <<72007, 72015>>, <<72026, 72095>>,
   <<72104, 72105>>, <<72152, 72153>>, <<72165, 72191>>, <<72264, 72271>>, <<72355, 72367>>, <<72441, 72703>>,
   <<72713, 72713>>, <<72759, 72759>>, <<72774, 72783>>, <<72813, 72815>>, <<72848, 72849>>, <<72872, 72872>>,
   <<72887, 72959>>, <<72967, 72967>>, <<72970, 72970>>, <<73015, 73017>>, <<73019, 73019>>, <<73022, 73022>>,
   <<73032, 73039>>, <<73050, 73055>>, <<73062, 73062>>, <<73065, 73065>>, <<73103, 73103>>, <<73106, 73106>>,
   <<73113, 73119>>, <<73130, 73439>>, <<73465, 73647>>, <<73649, 73663>>, <<73714, 73726>>, <<74650, 74751>>,
   <<74863, 74863>>, <<74869, 74879>>, <<75076, 77711>>, <<77811, 77823>>, <<78895, 82943>>, <<83527, 92159>>,
   <<92729, 92735>>, <<92767, 92767>>, <<92778, 92781>>, <<92863, 92863>>, <<92874, 92879>>, <<92910, 92911>>,
   <<92918, 92927>>, <<92998, 93007>>, <<93018, 93018>>, <<93026, 93026>>, <<93048, 93052>>, <<93072, 93759>>,
   <<93851, 93951>>, <<94027, 94030>>, <<94088, 94094>>, <<94112, 94175>>, <<94181, 94191>>, <<94194, 94207>>,
   <<100344, 100351>>, <<101590, 101631>>, <<101641, 110575>>, <<110580, 110580>>, <<110588, 110588>>, <<110591, 110591>>,
   <<110883, 110927>>, <<110931, 110947>>, <<110952, 110959>>, <<111356, 113663>>, <<113771, 113775>>, <<113789, 113791>>,
   <<113801, 113807>>, <<113818, 113819>>, <<113824, 118527>>, <<118574, 118575>>, <<118599, 118607>>, <<118724, 118783>>,
   <<119030, 119039>>, <<119079, 119080>>, <<119155, 119162>>, <<119275, 119295>>, <<119366, 119519>>, <<119540, 119551>>,
   <<119639, 119647>>, <<119673, 119807>>, <<119893, 119893>>, <<119965, 119965>>, <<119968, 119969>>, <<119971, 119972>>,
   <<119975, 119976>>, <<119981, 119981>>, <<119994, 119994>>, <<119996, 119996>>, <<120004, 120004>>, <<120070, 120070>>,
   <<120075, 120076>>, <<120085, 120085>>, <<120093, 120093>>, <<120122, 120122>>, <<120127, 120127>>, <<120133, 120133>>,
   <<120135, 120137>>, <<120145, 120145>>, <<120486, 120487>>, <<120780, 120781>>, <<121484, 121498>>, <<121504, 121504>>,
   <<121520, 122623>>, <<122655, 122879>>, <<122887, 122887>>, <<122905, 122906>>, <<122914, 122914>>, <<122917, 122917>>,
   <<122923, 123135>>, <<123181, 123183>>, <<123198, 123199>>, <<123210, 123213>>, <<123216, 123535>>, <<123567, 123583>>,
   <<123642, 123646>>, <<123648, 124895>>, <<124903, 124903>>, <<124908, 124908>>, <<124911, 124911>>, <<124927, 124927>>,
   <<125125, 125126>>, <<125143, 125183>>, <<125260, 125263>>, <<125274, 125277>>, <<125280, 126064>>, <<126133, 126208>>,
   <<126270, 126463>>, <<126468, 126468>>, <<126496, 126496>>, <<126499, 126499>>, <<126501, 126502>>, <<126504, 126504>>,
   <<126515, 126515>>, <<126520, 126520>>, <<126522, 126522>>, <<126524, 126529>>, <<126531, 126534>>, <<126536, 126536>>,
   <<126538, 126538>>, <<126540, 126540>>, <<126544, 126544>>, <<126547, 126547>>, <<126549, 126550>>, <<126552, 126552>>,
   <<126554, 126554>>, <<126556, 126556>>, <<126558, 126558>>, <<126560, 126560>>, <<126563, 126563>>, <<126565, 126566>>,
   <<126571, 126571>>, <<126579, 126579>>, <<126584, 126584>>, <<126589, 126589>>, <<126591, 126591>>, <<126602, 126602>>,
   <<126620, 126624>>, <<126628, 126628>>, <<126634, 126634>>, <<126652, 126703>>, <<126706, 126975>>, <<127020, 127023>>,
   <<127124, 127135>>, <<127151, 127152>>, <<127168, 127168>>, <<127184, 127184>>, <<127222, 127231>>, <<127406, 127461>>,
   <<127491, 127503>>, <<127548, 127551>>, <<127561, 127567>>, <<127570, 127583>>, <<127590, 127743>>, <<128728, 128732>>,
   <<128749, 128751>>, <<128765, 128767>>, <<128884, 128895>>, <<128985, 128991>>, <<129004, 129007>>, <<129009, 129023>>,
   <<129036, 129039>>, <<129096, 129103>>, <<129114, 129119>>, <<129160, 129167>>, <<129198, 129199>>, <<129202, 129279>>,
   <<129620, 129631>>, <<129646, 129647>>, <<129653, 129655>>, <<129661, 129663>>, <<129671, 129679>>, <<129709, 129711>>,
   <<129723, 129727>>, <<129734, 129743>>, <<129754, 129759>>, <<129768, 129775>>, <<129783, 129791>>, <<129939, 129939>>,
   <<129995, 130031>>, <<130042, 131071>>, <<173792, 173823>>, <<177977, 177983>>, <<178206, 178207>>, <<183970, 183983>>,
   <<191457, 194559>>, <<195102, 196607>>, <<201547, 917759>>, <<918000, 1114111>>
  }

\* n lies in one of the ranges <<lo, hi>>
Among(ranges, n) == \E r \in ranges : n >= r[1] /\ n <= r[2]

\* str.lower() of a one-character string: one character, or two for U+0130
Lower(c) ==
  IF Len(c) = 1
  THEN IF \E k \in 34..59 : Printable[k] = c
       THEN <<Printable[32 + (CHOOSE k \in 34..59 : Printable[k] = c)]>>
       ELSE <<c>>
  ELSE IF c = "\\u0130" THEN <<"i", "\\u0307">>
  ELSE LET n == Ord(c)
           runs == {r \in ToLowerRuns : n >= r[1] /\ n <= r[2] /\ (n - r[1]) % r[3] = 0}
       IN IF runs = {} THEN <<c>>
          ELSE <<CodePoint(n + (CHOOSE r \in runs : TRUE)[4])>>

\* str.lower(): character by character, a capital sigma becoming the final
\* sigma after a cased character and before none (case-ignorable characters
\* between them left aside)
lower(s) ==
  Flatten([k \in 1..Len(s) |->
             IF s[k] # "\\u03a3" THEN Lower(s[k])
             ELSE LET before == {j \in 1..(k - 1) :
                                   ~Among(CaseIgnorableRanges, Ord(s[j]))}
                      after == {j \in (k + 1)..Len(s) :
                                  ~Among(CaseIgnorableRanges, Ord(s[j]))}
                  IN IF /\ before # {}
                        /\ Among(CasedRanges,
                                 Ord(s[CHOOSE j \in before : \A m \in before : m <= j]))
                        /\ \/ after = {}
                           \/ ~Among(CasedRanges, Ord(s[SetMin(after)]))
                     THEN <<"\\u03c2">>
                     ELSE <<"\\u03c3">>])

\* repr() of a str: in double quotes when it holds a single quote and no
\* double quote; the quote, the backslash and what is not printable escaped
repr(s) ==
  LET quote == IF /\ \E k \in 1..Len(s) : s[k] = "'"
                  /\ \A k \in 1..Len(s) : s[k] # "\""
               THEN "\"" ELSE "'"
  IN <<quote>>
       \o Flatten([k \in 1..Len(s) |->
                     LET c == s[k]
                         n == Ord(c)
                     IN IF c = quote \/ c = "\\" THEN <<"\\", c>>
                        ELSE IF c = "\t" THEN <<"\\", "t">>
                        ELSE IF c = "\n" THEN <<"\\", "n">>
                        ELSE IF c = "\r" THEN <<"\\", "r">>
                        ELSE IF n \in 32..126 THEN <<c>>
                        ELSE IF n > 127 /\ ~Among(NonPrintableRanges, n) THEN <<c>>
                        ELSE IF n < 256 THEN <<"\\", "x", Hex(n, 16), Hex(n, 1)>>
                        ELSE IF n < 65536
                        THEN <<"\\", "u", Hex(n, 4096), Hex(n, 256), Hex(n, 16), Hex(n, 1)>>
                        ELSE <<"\\", "U", "0", "0", Hex(n, 1048576), Hex(n, 65536),
                               Hex(n, 4096), Hex(n, 256), Hex(n, 16), Hex(n, 1)>>])
       \o <<quote>>

(***************************************************************************)
(* Character references.                                                   *)
(***************************************************************************)
\* html.entities.html5, which bs4 and html.unescape go by: the names with the
\* characters they stand for; legacy marks the names that are also known
\* without the semicolon
HtmlEntities ==
  <<
    [name |-> <<"A", "E", "l", "i", "g">>, chars |-> <<"\\u00c6">>, legacy |-> TRUE],
    [name |-> <<"A", "M", "P">>, chars |-> <<"&">>, legacy |-> TRUE],
    [name |-> <<"A", "a", "c", "u", "t", "e">>, chars |-> <<"\\u00c1">>, legacy |-> TRUE],
    [name |-> <<"A", "b", "r", "e", "v", "e">>, chars |-> <<"\\u0102">>, legacy |-> FALSE],
    [name |-> <<"A", "c", "i", "r", "c">>, chars |-> <<"\\u00c2">>, legacy |-> TRUE],
    [name |-> <<"A", "c", "y">>, chars |-> <<"\\u0410">>, legacy |-> FALSE],
    [name |-> <<"A", "f", "r">>, chars |-> <<"\\U0001d504">>, legacy |-> FALSE],
    [name |-> <<"A", "g", "r", "a", "v", "e">>, chars |-> <<"\\u00c0">>, legacy |-> TRUE],
    [name |-> <<"A", "l", "p", "h", "a">>, chars |-> <<"\\u0391">>, legacy |-> FALSE],
    [name |-> <<"A", "m", "a", "c", "r">>, chars |-> <<"\\u0100">>, legacy |-> FALSE],
    [name |-> <<"A", "n", "d">>, chars |-> <<"\\u2a53">>, legacy |-> FALSE],
    [name |-> <<"A", "o", "g", "o", "n">>, chars |-> <<"\\u0104">>, legacy |-> FALSE],
    [name |-> <<"A", "o", "p", "f">>, chars |-> <<"\\U0001d538">>, legacy |-> FALSE],
    [name |-> <<"A", "p", "p", "l", "y", "F", "u", "n", "c", "t", "i", "o", "n">>, chars |-> <<"\\u2061">>, legacy |-> FALSE],
    [name |-> <<"A", "r", "i", "n", "g">>, chars |-> <<"\\u00c5">>, legacy |-> TRUE],
    [name |-> <<"A", "s", "c", "r">>, chars |-> <<"\\U0001d49c">>, legacy |-> FALSE],
    [name |-> <<"A", "s", "s", "i", "g", "n">>, chars |-> <<"\\u2254">>, legacy |-> FALSE],
    [name |-> <<"A", "t", "i", "l", "d", "e">>, chars |-> <<"\\u00c3">>, legacy |-> TRUE],
    [name |-> <<"A", "u", "m", "l">>, chars |-> <<"\\u00c4">>, legacy |-> TRUE],
    [name |-> <<"B", "a", "c", "k", "s", "l", "a", "s", "h">>, chars |-> <<"\\u2216">>, legacy |-> FALSE],
    [name |-> <<"B", "a", "r", "v">>, chars |-> <<"\\u2ae7">>, legacy |-> FALSE],
    [name |-> <<"B", "a", "r", "w", "e", "d">>, chars |-> <<"\\u2306">>, legacy |-> FALSE],
    [name |-> <<"B", "c", "y">>, chars |-> <<"\\u0411">>, legacy |-> FALSE],
    [name |-> <<"B", "e", "c", "a", "u", "s", "e">>, chars |-> <<"\\u2235">>, legacy |-> FALSE],
    [name |-> <<"B", "e", "r", "n", "o", "u", "l", "l", "i", "s">>, chars |-> <<"\\u212c">>, legacy |-> FALSE],
    [name |-> <<"B", "e", "t", "a">>, chars |-> <<"\\u0392">>, legacy |-> FALSE],
    [name |-> <<"B", "f", "r">>, chars |-> <<"\\U0001d505">>, legacy |-> FALSE],
    [name |-> <<"B", "o", "p", "f">>, chars |-> <<"\\U0001d539">>, legacy |-> FALSE],
    [name |-> <<"B", "r", "e", "v", "e">>, chars |-> <<"\\u02d8">>, legacy |-> FALSE],
    [name |-> <<"B", "s", "c", "r">>, chars |-> <<"\\u212c">>, legacy |-> FALSE],
    [name |-> <<"B", "u", "m", "p", "e", "q">>, chars |-> <<"\\u224e">>, legacy |-> FALSE],
    [name |-> <<"C", "H", "c", "y">>, chars |-> <<"\\u0427">>, legacy |-> FALSE],
    [name |-> <<"C", "O", "P", "Y">>, chars |-> <<"\\u00a9">>, legacy |-> TRUE],
    [name |-> <<"C", "a", "c", "u", "t", "e">>, chars |-> <<"\\u0106">>, legacy |-> FALSE],
    [name |-> <<"C", "a", "p">>, chars |-> <<"\\u22d2">>, legacy |-> FALSE],
    [name |-> <<"C", "a", "p", "i", "t", "a", "l", "D", "i", "f", "f", "e", "r", "e", "n", "t", "i", "a", "l", "D">>, chars |-> <<"\\u2145">>, legacy |-> FALSE],
    [name |-> <<"C", "a", "y", "l", "e", "y", "s">>, chars |-> <<"\\u212d">>, legacy |-> FALSE],
    [name |-> <<"C", "c", "a", "r", "o", "n">>, chars |-> <<"\\u010c">>, legacy |-> FALSE],
    [name |-> <<"C", "c", "e", "d", "i", "l">>, chars |-> <<"\\u00c7">>, legacy |-> TRUE],
    [name |-> <<"C", "c", "i", "r", "c">>, chars |-> <<"\\u0108">>, legacy |-> FALSE],
    [name |-> <<"C", "c", "o", "n", "i", "n", "t">>, chars |-> <<"\\u2230">>, legacy |-> FALSE],
    [name |-> <<"C", "d", "o", "t">>, chars |-> <<"\\u010a">>, legacy |-> FALSE],
    [name |-> <<"C", "e", "d", "i", "l", "l", "a">>, chars |-> <<"\\u00b8">>, legacy |-> FALSE],
    [name |-> <<"C", "e", "n", "t", "e", "r", "D", "o", "t">>, chars |-> <<"\\u00b7">>, legacy |-> FALSE],
    [name |-> <<"C", "f", "r">>, chars |-> <<"\\u212d">>, legacy |-> FALSE],
    [name |-> <<"C", "h", "i">>, chars |-> <<"\\u03a7">>, legacy |-> FALSE],
    [name |-> <<"C", "i", "r", "c", "l", "e", "D", "o", "t">>, chars |-> <<"\\u2299">>, legacy |-> FALSE],
    [name |-> <<"C", "i", "r", "c", "l", "e", "M", "i", "n", "u", "s">>, chars |-> <<"\\u2296">>, legacy |-> FALSE],
    [name |-> <<"C", "i", "r", "c", "l", "e", "P", "l", "u", "s">>, chars |-> <<"\\u2295">>, legacy |-> FALSE],
    [name |-> <<"C", "i", "r", "c", "l", "e", "T", "i", "m", "e", "s">>, chars |-> <<"\\u2297">>, legacy |-> FALSE],
    [name |-> <<"C", "l", "o", "c", "k", "w", "i", "s", "e", "C", "o", "n", "t", "o", "u", "r", "I", "n", "t", "e", "g", "r", "a", "l">>, chars |-> <<"\\u2232">>, legacy |-> FALSE],
    [name |-> <<"C", "l", "o", "s", "e", "C", "u", "r", "l", "y", "D", "o", "u", "b", "l", "e", "Q", "u", "o", "t", "e">>, chars |-> <<"\\u201d">>, legacy |-> FALSE],
    [name |-> <<"C", "l", "o", "s", "e", "C", "u", "r", "l", "y", "Q", "u", "o", "t", "e">>, chars |-> <<"\\u2019">>, legacy |-> FALSE],
    [name |-> <<"C", "o", "l", "o", "n">>, chars |-> <<"\\u2237">>, legacy |-> FALSE],
    [name |-> <<"C", "o", "l", "o", "n", "e">>, chars |-> <<"\\u2a74">>, legacy |-> FALSE],
    [name |-> <<"C", "o", "n", "g", "r", "u", "e", "n", "t">>, chars |-> <<"\\u2261">>, legacy |-> FALSE],
    [name |-> <<"C", "o", "n", "i", "n", "t">>, chars |-> <<"\\u222f">>, legacy |-> FALSE],
    [name |-> <<"C", "o", "n", "t", "o", "u", "r", "I", "n", "t", "e", "g", "r", "a", "l">>, chars |-> <<"\\u222e">>, legacy |-> FALSE],
    [name |-> <<"C", "o", "p", "f">>, chars |-> <<"\\u2102">>, legacy |-> FALSE],
    [name |-> <<"C", "o", "p", "r", "o", "d", "u", "c", "t">>, chars |-> <<"\\u2210">>, legacy |-> FALSE],
    [name |-> <<"C", "o", "u", "n", "t", "e", "r", "C", "l", "o", "c", "k", "w", "i", "s", "e", "C", "o", "n", "t", "o", "u", "r", "I", "n", "t", "e", "g", "r", "a", "l">>, chars |-> <<"\\u2233">>, legacy |-> FALSE],
    [name |-> <<"C", "r", "o", "s", "s">>, chars |-> <<"\\u2a2f">>, legacy |-> FALSE],
    [name |-> <<"C", "s", "c", "r">>, chars |-> <<"\\U0001d49e">>, legacy |-> FALSE],
    [name |-> <<"C", "u", "p">>, chars |-> <<"\\u22d3">>, legacy |-> FALSE],
    [name |-> <<"C", "u", "p", "C", "a", "p">>, chars |-> <<"\\u224d">>, legacy |-> FALSE],
    [name |-> <<"D", "D">>, chars |-> <<"\\u2145">>, legacy |-> FALSE],
    [name |-> <<"D", "D", "o", "t", "r", "a", "h", "d">>, chars |-> <<"\\u2911">>, legacy |-> FALSE],
    [name |-> <<"D", "J", "c", "y">>, chars |-> <<"\\u0402">>, legacy |-> FALSE],
    [name |-> <<"D", "S", "c", "y">>, chars |-> <<"\\u0405">>, legacy |-> FALSE],
    [name |-> <<"D", "Z", "c", "y">>, chars |-> <<"\\u040f">>, legacy |-> FALSE],
    [name |-> <<"D", "a", "g", "g", "e", "r">>, chars |-> <<"\\u2021">>, legacy |-> FALSE],
    [name |-> <<"D", "a", "r", "r">>, chars |-> <<"\\u21a1">>, legacy |-> FALSE],
    [name |-> <<"D", "a", "s", "h", "v">>, chars |-> <<"\\u2ae4">>, legacy |-> FALSE],
    [name |-> <<"D", "c", "a", "r", "o", "n">>, chars |-> <<"\\u010e">>, legacy |-> FALSE],
    [name |-> <<"D", "c", "y">>, chars |-> <<"\\u0414">>, legacy |-> FALSE],
    [name |-> <<"D", "e", "l">>, chars |-> <<"\\u2207">>, legacy |-> FALSE],
    [name |-> <<"D", "e", "l", "t", "a">>, chars |-> <<"\\u0394">>, legacy |-> FALSE],
    [name |-> <<"D", "f", "r">>, chars |-> <<"\\U0001d507">>, legacy |-> FALSE],
    [name |-> <<"D", "i", "a", "c", "r", "i", "t", "i", "c", "a", "l", "A", "c", "u", "t", "e">>, chars |-> <<"\\u00b4">>, legacy |-> FALSE],
    [name |-> <<"D", "i", "a", "c", "r", "i", "t", "i", "c", "a", "l", "D", "o", "t">>, chars |-> <<"\\u02d9">>, legacy |-> FALSE],
    [name |-> <<"D", "i", "a", "c", "r", "i", "t", "i", "c", "a", "l", "D", "o", "u", "b", "l", "e", "A", "c", "u", "t", "e">>, chars |-> <<"\\u02dd">>, legacy |-> FALSE],
    [name |-> <<"D", "i", "a", "c", "r", "i", "t", "i", "c", "a", "l", "G", "r", "a", "v", "e">>, chars |-> <<"\\u0060">>, legacy |-> FALSE],
    [name |-> <<"D", "i", "a", "c", "r", "i", "t", "i", "c", "a", "l", "T", "i", "l", "d", "e">>, chars |-> <<"\\u02dc">>, legacy |-> FALSE],
    [name |-> <<"D", "i", "a", "m", "o", "n", "d">>, chars |-> <<"\\u22c4">>, legacy |-> FALSE],
    [name |-> <<"D", "i", "f", "f", "e", "r", "e", "n", "t", "i", "a", "l", "D">>, chars |-> <<"\\u2146">>, legacy |-> FALSE],
    [name |-> <<"D", "o", "p", "f">>, chars |-> <<"\\U0001d53b">>, legacy |-> FALSE],
    [name |-> <<"D", "o", "t">>, chars |-> <<"\\u00a8">>, legacy |-> FALSE],
    [name |-> <<"D", "o", "t", "D", "o", "t">>, chars |-> <<"\\u20dc">>, legacy |-> FALSE],
    [name |-> <<"D", "o", "t", "E", "q", "u", "a", "l">>, chars |-> <<"\\u2250">>, legacy |-> FALSE],
    [name |-> <<"D", "o", "u", "b", "l", "e", "C", "o", "n", "t", "o", "u", "r", "I", "n", "t", "e", "g", "r", "a", "l">>, chars |-> <<"\\u222f">>, legacy |-> FALSE],
    [name |-> <<"D", "o", "u", "b", "l", "e", "D", "o", "t">>, chars |-> <<"\\u00a8">>, legacy |-> FALSE],
    [name |-> <<"D", "o", "u", "b", "l", "e", "D", "o", "w", "n", "A", "r", "r", "o", "w">>, chars |-> <<"\\u21d3">>, legacy |-> FALSE],
    [name |-> <<"D", "o", "u", "b", "l", "e", "L", "e", "f", "t", "A", "r", "r", "o", "w">>, chars |-> <<"\\u21d0">>, legacy |-> FALSE],
    [name |-> <<"D", "o", "u", "b", "l", "e", "L", "e", "f", "t", "R", "i", "g", "h", "t", "A", "r", "r", "o", "w">>, chars |-> <<"\\u21d4">>, legacy |-> FALSE],
    [name |-> <<"D", "o", "u", "b", "l", "e", "L", "e", "f", "t", "T", "e", "e">>, chars |-> <<"\\u2ae4">>, legacy |-> FALSE],
    [name |-> <<"D", "o", "u", "b", "l", "e", "L", "o", "n", "g", "L", "e", "f", "t", "A", "r", "r", "o", "w">>, chars |-> <<"\\u27f8">>, legacy |-> FALSE],
    [name |-> <<"D", "o", "u", "b", "l", "e", "L", "o", "n", "g", "L", "e", "f", "t", "R", "i", "g", "h", "t", "A", "r", "r", "o", "w">>, chars |-> <<"\\u27fa">>, legacy |-> FALSE],
    [name |-> <<"D", "o", "u", "b", "l", "e", "L", "o", "n", "g", "R", "i", "g", "h", "t", "A", "r", "r", "o", "w">>, chars |-> <<"\\u27f9">>, legacy |-> FALSE],
    [name |-> <<"D", "o", "u", "b", "l", "e", "R", "i", "g", "h", "t", "A", "r", "r", "o", "w">>, chars |-> <<"\\u21d2">>, legacy |-> FALSE],
    [name |-> <<"D", "o", "u", "b", "l", "e", "R", "i", "g", "h", "t", "T", "e", "e">>, chars |-> <<"\\u22a8">>, legacy |-> FALSE],
    [name |-> <<"D", "o", "u", "b", "l", "e", "U", "p", "A", "r", "r", "o", "w">>, chars |-> <<"\\u21d1">>, legacy |-> FALSE],
    [name |-> <<"D", "o", "u", "b", "l", "e", "U", "p", "D", "o", "w", "n", "A", "r", "r", "o", "w">>, chars |-> <<"\\u21d5">>, legacy |-> FALSE],
    [name |-> <<"D", "o", "u", "b", "l", "e", "V", "e", "r", "t", "i", "c", "a", "l", "B", "a", "r">>, chars |-> <<"\\u2225">>, legacy |-> FALSE],
    [name |-> <<"D", "o", "w", "n", "A", "r", "r", "o", "w">>, chars |-> <<"\\u2193">>, legacy |-> FALSE],
    [name |-> <<"D", "o", "w", "n", "A", "r", "r", "o", "w", "B", "a", "r">>, chars |-> <<"\\u2913">>, legacy |-> FALSE],
    [name |-> <<"D", "o", "w", "n", "A", "r", "r", "o", "w", "U", "p", "A", "r", "r", "o", "w">>, chars |-> <<"\\u21f5">>, legacy |-> FALSE],
    [name |-> <<"D", "o", "w", "n", "B", "r", "e", "v", "e">>, chars |-> <<"\\u0311">>, legacy |-> FALSE],
    [name |-> <<"D", "o", "w", "n", "L", "e", "f", "t", "R", "i", "g", "h", "t", "V", "e", "c", "t", "o", "r">>, chars |-> <<"\\u2950">>, legacy |-> FALSE],
    [name |-> <<"D", "o", "w", "n", "L", "e", "f", "t", "T", "e", "e", "V", "e", "c", "t", "o", "r">>, chars |-> <<"\\u295e">>, legacy |-> FALSE],
    [name |-> <<"D", "o", "w", "n", "L", "e", "f", "t", "V", "e", "c", "t", "o", "r">>, chars |-> <<"\\u21bd">>, legacy |-> FALSE],
    [name |-> <<"D", "o", "w", "n", "L", "e", "f", "t", "V", "e", "c", "t", "o", "r", "B", "a", "r">>, chars |-> <<"\\u2956">>, legacy |-> FALSE],
    [name |-> <<"D", "o", "w", "n", "R", "i", "g", "h", "t", "T", "e", "e", "V", "e", "c", "t", "o", "r">>, chars |-> <<"\\u295f">>, legacy |-> FALSE],
    [name |-> <<"D", "o", "w", "n", "R", "i", "g", "h", "t", "V", "e", "c", "t", "o", "r">>, chars |-> <<"\\u21c1">>, legacy |-> FALSE],
    [name |-> <<"D", "o", "w", "n", "R", "i", "g", "h", "t", "V", "e", "c", "t", "o", "r", "B", "a", "r">>, chars |-> <<"\\u2957">>, legacy |-> FALSE],
    [name |-> <<"D", "o", "w", "n", "T", "e", "e">>, chars |-> <<"\\u22a4">>, legacy |-> FALSE],
    [name |-> <<"D", "o", "w", "n", "T", "e", "e", "A", "r", "r", "o", "w">>, chars |-> <<"\\u21a7">>, legacy |-> FALSE],
    [name |-> <<"D", "o", "w", "n", "a", "r", "r", "o", "w">>, chars |-> <<"\\u21d3">>, legacy |-> FALSE],
    [name |-> <<"D", "s", "c", "r">>, chars |-> <<"\\U0001d49f">>, legacy |-> FALSE],
    [name |-> <<"D", "s", "t", "r", "o", "k">>, chars |-> <<"\\u0110">>, legacy |-> FALSE],
    [name |-> <<"E", "N", "G">>, chars |-> <<"\\u014a">>, legacy |-> FALSE],
    [name |-> <<"E", "T", "H">>, chars |-> <<"\\u00d0">>, legacy |-> TRUE],
    [name |-> <<"E", "a", "c", "u", "t", "e">>, chars |-> <<"\\u00c9">>, legacy |-> TRUE],
    [name |-> <<"E", "c", "a", "r", "o", "n">>, chars |-> <<"\\u011a">>, legacy |-> FALSE],
    [name |-> <<"E", "c", "i", "r", "c">>, chars |-> <<"\\u00ca">>, legacy |-> TRUE],
    [name |-> <<"E", "c", "y">>, chars |-> <<"\\u042d">>, legacy |-> FALSE],
    [name |-> <<"E", "d", "o", "t">>, chars |-> <<"\\u0116">>, legacy |-> FALSE],
    [name |-> <<"E", "f", "r">>, chars |-> <<"\\U0001d508">>, legacy |-> FALSE],
    [name |-> <<"E", "g", "r", "a", "v", "e">>, chars |-> <<"\\u00c8">>, legacy |-> TRUE],
    [name |-> <<"E", "l", "e", "m", "e", "n", "t">>, chars |-> <<"\\u2208">>, legacy |-> FALSE],
    [name |-> <<"E", "m", "a", "c", "r">>, chars |-> <<"\\u0112">>, legacy |-> FALSE],
    [name |-> <<"E", "m", "p", "t", "y", "S", "m", "a", "l", "l", "S", "q", "u", "a", "r", "e">>, chars |-> <<"\\u25fb">>, legacy |-> FALSE],
    [name |-> <<"E", "m", "p", "t", "y", "V", "e", "r", "y", "S", "m", "a", "l", "l", "S", "q", "u", "a", "r", "e">>, chars |-> <<"\\u25ab">>, legacy |-> FALSE],
    [name |-> <<"E", "o", "g", "o", "n">>, chars |-> <<"\\u0118">>, legacy |-> FALSE],
    [name |-> <<"E", "o", "p", "f">>, chars |-> <<"\\U0001d53c">>, legacy |-> FALSE],
    [name |-> <<"E", "p", "s", "i", "l", "o", "n">>, chars |-> <<"\\u0395">>, legacy |-> FALSE],
    [name |-> <<"E", "q", "u", "a", "l">>, chars |-> <<"\\u2a75">>, legacy |-> FALSE],
    [name |-> <<"E", "q", "u", "a", "l", "T", "i", "l", "d", "e">>, chars |-> <<"\\u2242">>, legacy |-> FALSE],
    [name |-> <<"E", "q", "u", "i", "l", "i", "b", "r", "i", "u", "m">>, chars |-> <<"\\u21cc">>, legacy |-> FALSE],
    [name |-> <<"E", "s", "c", "r">>, chars |-> <<"\\u2130">>, legacy |-> FALSE],
    [name |-> <<"E", "s", "i", "m">>, chars |-> <<"\\u2a73">>, legacy |-> FALSE],
    [name |-> <<"E", "t", "a">>, chars |-> <<"\\u0397">>, legacy |-> FALSE],
    [name |-> <<"E", "u", "m", "l">>, chars |-> <<"\\u00cb">>, legacy |-> TRUE],
    [name |-> <<"E", "x", "i", "s", "t", "s">>, chars |-> <<"\\u2203">>, legacy |-> FALSE],
    [name |-> <<"E", "x", "p", "o", "n", "e", "n", "t", "i", "a", "l", "E">>, chars |-> <<"\\u2147">>, legacy |-> FALSE],
    [name |-> <<"F", "c", "y">>, chars |-> <<"\\u0424">>, legacy |-> FALSE],
    [name |-> <<"F", "f", "r">>, chars |-> <<"\\U0001d509">>, legacy |-> FALSE],
    [name |-> <<"F", "i", "l", "l", "e", "d", "S", "m", "a", "l", "l", "S", "q", "u", "a", "r", "e">>, chars |-> <<"\\u25fc">>, legacy |-> FALSE],
    [name |-> <<"F", "i", "l", "l", "e", "d", "V", "e", "r", "y", "S", "m", "a", "l", "l", "S", "q", "u", "a", "r", "e">>, chars |-> <<"\\u25aa">>, legacy |-> FALSE],
    [name |-> <<"F", "o", "p", "f">>, chars |-> <<"\\U0001d53d">>, legacy |-> FALSE],
    [name |-> <<"F", "o", "r", "A", "l", "l">>, chars |-> <<"\\u2200">>, legacy |-> FALSE],
    [name |-> <<"F", "o", "u", "r", "i", "e", "r", "t", "r", "f">>, chars |-> <<"\\u2131">>, legacy |-> FALSE],
    [name |-> <<"F", "s", "c", "r">>, chars |-> <<"\\u2131">>, legacy |-> FALSE],
    [name |-> <<"G", "J", "c", "y">>, chars |-> <<"\\u0403">>, legacy |-> FALSE],
    [name |-> <<"G", "T">>, chars |-> <<">">>, legacy |-> TRUE],
    [name |-> <<"G", "a", "m", "m", "a">>, chars |-> <<"\\u0393">>, legacy |-> FALSE],
    [name |-> <<"G", "a", "m", "m", "a", "d">>, chars |-> <<"\\u03dc">>, legacy |-> FALSE],
    [name |-> <<"G", "b", "r", "e", "v", "e">>, chars |-> <<"\\u011e">>, legacy |-> FALSE],
    [name |-> <<"G", "c", "e", "d", "i", "l">>, chars |-> <<"\\u0122">>, legacy |-> FALSE],
    [name |-> <<"G", "c", "i", "r", "c">>, chars |-> <<"\\u011c">>, legacy |-> FALSE],
    [name |-> <<"G", "c", "y">>, chars |-> <<"\\u0413">>, legacy |-> FALSE],
    [name |-> <<"G", "d", "o", "t">>, chars |-> <<"\\u0120">>, legacy |-> FALSE],
    [name |-> <<"G", "f", "r">>, chars |-> <<"\\U0001d50a">>, legacy |-> FALSE],
    [name |-> <<"G", "g">>, chars |-> <<"\\u22d9">>, legacy |-> FALSE],
    [name |-> <<"G", "o", "p", "f">>, chars |-> <<"\\U0001d53e">>, legacy |-> FALSE],
    [name |-> <<"G", "r", "e", "a", "t", "e", "r", "E", "q", "u", "a", "l">>, chars |-> <<"\\u2265">>, legacy |-> FALSE],
    [name |-> <<"G", "r", "e", "a", "t", "e", "r", "E", "q", "u", "a", "l", "L", "e", "s", "s">>, chars |-> <<"\\u22db">>, legacy |-> FALSE],
    [name |-> <<"G", "r", "e", "a", "t", "e", "r", "F", "u", "l", "l", "E", "q", "u", "a", "l">>, chars |-> <<"\\u2267">>, legacy |-> FALSE],
    [name |-> <<"G", "r", "e", "a", "t", "e", "r", "G", "r", "e", "a", "t", "e", "r">>, chars |-> <<"\\u2aa2">>, legacy |-> FALSE],
    [name |-> <<"G", "r", "e", "a", "t", "e", "r", "L", "e", "s", "s">>, chars |-> <<"\\u2277">>, legacy |-> FALSE],
    [name |-> <<"G", "r", "e", "a", "t", "e", "r", "S", "l", "a", "n", "t", "E", "q", "u", "a", "l">>, chars |-> <<"\\u2a7e">>, legacy |-> FALSE],
    [name |-> <<"G", "r", "e", "a", "t", "e", "r", "T", "i", "l", "d", "e">>, chars |-> <<"\\u2273">>, legacy |-> FALSE],
    [name |-> <<"G", "s", "c", "r">>, chars |-> <<"\\U0001d4a2">>, legacy |-> FALSE],
    [name |-> <<"G", "t">>, chars |-> <<"\\u226b">>, legacy |-> FALSE],
    [name |-> <<"H", "A", "R", "D", "c", "y">>, chars |-> <<"\\u042a">>, legacy |-> FALSE],
    [name |-> <<"H", "a", "c", "e", "k">>, chars |-> <<"\\u02c7">>, legacy |-> FALSE],
    [name |-> <<"H", "a", "t">>, chars |-> <<"^">>, legacy |-> FALSE],
    [name |-> <<"H", "c", "i", "r", "c">>, chars |-> <<"\\u0124">>, legacy |-> FALSE],
    [name |-> <<"H", "f", "r">>, chars |-> <<"\\u210c">>, legacy |-> FALSE],
    [name |-> <<"H", "i", "l", "b", "e", "r", "t", "S", "p", "a", "c", "e">>, chars |-> <<"\\u210b">>, legacy |-> FALSE],
    [name |-> <<"H", "o", "p", "f">>, chars |-> <<"\\u210d">>, legacy |-> FALSE],
    [name |-> <<"H", "o", "r", "i", "z", "o", "n", "t", "a", "l", "L", "i", "n", "e">>, chars |-> <<"\\u2500">>, legacy |-> FALSE],
    [name |-> <<"H", "s", "c", "r">>, chars |-> <<"\\u210b">>, legacy |-> FALSE],
    [name |-> <<"H", "s", "t", "r", "o", "k">>, chars |-> <<"\\u0126">>, legacy |-> FALSE],
    [name |-> <<"H", "u", "m", "p", "D", "o", "w", "n", "H", "u", "m", "p">>, chars |-> <<"\\u224e">>, legacy |-> FALSE],
    [name |-> <<"H", "u", "m", "p", "E", "q", "u", "a", "l">>, chars |-> <<"\\u224f">>, legacy |-> FALSE],
    [name |-> <<"I", "E", "c", "y">>, chars |-> <<"\\u0415">>, legacy |-> FALSE],
    [name |-> <<"I", "J", "l", "i", "g">>, chars |-> <<"\\u0132">>, legacy |-> FALSE],
    [name |-> <<"I", "O", "c", "y">>, chars |-> <<"\\u0401">>, legacy |-> FALSE],
    [name |-> <<"I", "a", "c", "u", "t", "e">>, chars |-> <<"\\u00cd">>, legacy |-> TRUE],
    [name |-> <<"I", "c", "i", "r", "c">>, chars |-> <<"\\u00ce">>, legacy |-> TRUE],
    [name |-> <<"I", "c", "y">>, chars |-> <<"\\u0418">>, legacy |-> FALSE],
    [name |-> <<"I", "d", "o", "t">>, chars |-> <<"\\u0130">>, legacy |-> FALSE],
    [name |-> <<"I", "f", "r">>, chars |-> <<"\\u2111">>, legacy |-> FALSE],
    [name |-> <<"I", "g", "r", "a", "v", "e">>, chars |-> <<"\\u00cc">>, legacy |-> TRUE],
    [name |-> <<"I", "m">>, chars |-> <<"\\u2111">>, legacy |-> FALSE],
    [name |-> <<"I", "m", "a", "c", "r">>, chars |-> <<"\\u012a">>, legacy |-> FALSE],
    [name |-> <<"I", "m", "a", "g", "i", "n", "a", "r", "y", "I">>, chars |-> <<"\\u2148">>, legacy |-> FALSE],
    [name |-> <<"I", "m", "p", "l", "i", "e", "s">>, chars |-> <<"\\u21d2">>, legacy |-> FALSE],
    [name |-> <<"I", "n", "t">>, chars |-> <<"\\u222c">>, legacy |-> FALSE],
    [name |-> <<"I", "n", "t", "e", "g", "r", "a", "l">>, chars |-> <<"\\u222b">>, legacy |-> FALSE],
    [name |-> <<"I", "n", "t", "e", "r", "s", "e", "c", "t", "i", "o", "n">>, chars |-> <<"\\u22c2">>, legacy |-> FALSE],
    [name |-> <<"I", "n", "v", "i", "s", "i", "b", "l", "e", "C", "o", "m", "m", "a">>, chars |-> <<"\\u2063">>, legacy |-> FALSE],
    [name |-> <<"I", "n", "v", "i", "s", "i", "b", "l", "e", "T", "i", "m", "e", "s">>, chars |-> <<"\\u2062">>, legacy |-> FALSE],
    [name |-> <<"I", "o", "g", "o", "n">>, chars |-> <<"\\u012e">>, legacy |-> FALSE],
    [name |-> <<"I", "o", "p", "f">>, chars |-> <<"\\U0001d540">>, legacy |-> FALSE],
    [name |-> <<"I", "o", "t", "a">>, chars |-> <<"\\u0399">>, legacy |-> FALSE],
    [name |-> <<"I", "s", "c", "r">>, chars |-> <<"\\u2110">>, legacy |-> FALSE],
    [name |-> <<"I", "t", "i", "l", "d", "e">>, chars |-> <<"\\u0128">>, legacy |-> FALSE],
    [name |-> <<"I", "u", "k", "c", "y">>, chars |-> <<"\\u0406">>, legacy |-> FALSE],
    [name |-> <<"I", "u", "m", "l">>, chars |-> <<"\\u00cf">>, legacy |-> TRUE],
    [name |-> <<"J", "c", "i", "r", "c">>, chars |-> <<"\\u0134">>, legacy |-> FALSE],
    [name |-> <<"J", "c", "y">>, chars |-> <<"\\u0419">>, legacy |-> FALSE],
    [name |-> <<"J", "f", "r">>, chars |-> <<"\\U0001d50d">>, legacy |-> FALSE],
    [name |-> <<"J", "o", "p", "f">>, chars |-> <<"\\U0001d541">>, legacy |-> FALSE],
    [name |-> <<"J", "s", "c", "r">>, chars |-> <<"\\U0001d4a5">>, legacy |-> FALSE],
    [name |-> <<"J", "s", "e", "r", "c", "y">>, chars |-> <<"\\u0408">>, legacy |-> FALSE],
    [name |-> <<"J", "u", "k", "c", "y">>, chars |-> <<"\\u0404">>, legacy |-> FALSE],
    [name |-> <<"K", "H", "c", "y">>, chars |-> <<"\\u0425">>, legacy |-> FALSE],
    [name |-> <<"K", "J", "c", "y">>, chars |-> <<"\\u040c">>, legacy |-> FALSE],
    [name |-> <<"K", "a", "p", "p", "a">>, chars |-> <<"\\u039a">>, legacy |-> FALSE],
    [name |-> <<"K", "c", "e", "d", "i", "l">>, chars |-> <<"\\u0136">>, legacy |-> FALSE],
    [name |-> <<"K", "c", "y">>, chars |-> <<"\\u041a">>, legacy |-> FALSE],
    [name |-> <<"K", "f", "r">>, chars |-> <<"\\U0001d50e">>, legacy |-> FALSE],
    [name |-> <<"K", "o", "p", "f">>, chars |-> <<"\\U0001d542">>, legacy |-> FALSE],
    [name |-> <<"K", "s", "c", "r">>, chars |-> <<"\\U0001d4a6">>, legacy |-> FALSE],
    [name |-> <<"L", "J", "c", "y">>, chars |-> <<"\\u0409">>, legacy |-> FALSE],
    [name |-> <<"L", "T">>, chars |-> <<"<">>, legacy |-> TRUE],
    [name |-> <<"L", "a", "c", "u", "t", "e">>, chars |-> <<"\\u0139">>, legacy |-> FALSE],
    [name |-> <<"L", "a", "m", "b", "d", "a">>, chars |-> <<"\\u039b">>, legacy |-> FALSE],
    [name |-> <<"L", "a", "n", "g">>, chars |-> <<"\\u27ea">>, legacy |-> FALSE],
    [name |-> <<"L", "a", "p", "l", "a", "c", "e", "t", "r", "f">>, chars |-> <<"\\u2112">>, legacy |-> FALSE],
    [name |-> <<"L", "a", "r", "r">>, chars |-> <<"\\u219e">>, legacy |-> FALSE],
    [name |-> <<"L", "c", "a", "r", "o", "n">>, chars |-> <<"\\u013d">>, legacy |-> FALSE],
    [name |-> <<"L", "c", "e", "d", "i", "l">>, chars |-> <<"\\u013b">>, legacy |-> FALSE],
    [name |-> <<"L", "c", "y">>, chars |-> <<"\\u041b">>, legacy |-> FALSE],
    [name |-> <<"L", "e", "f", "t", "A", "n", "g", "l", "e", "B", "r", "a", "c", "k", "e", "t">>, chars |-> <<"\\u27e8">>, legacy |-> FALSE],
    [name |-> <<"L", "e", "f", "t", "A", "r", "r", "o", "w">>, chars |-> <<"\\u2190">>, legacy |-> FALSE],
    [name |-> <<"L", "e", "f", "t", "A", "r", "r", "o", "w", "B", "a", "r">>, chars |-> <<"\\u21e4">>, legacy |-> FALSE],
    [name |-> <<"L", "e", "f", "t", "A", "r", "r", "o", "w", "R", "i", "g", "h", "t", "A", "r", "r", "o", "w">>, chars |-> <<"\\u21c6">>, legacy |-> FALSE],
    [name |-> <<"L", "e", "f", "t", "C", "e", "i", "l", "i", "n", "g">>, chars |-> <<"\\u2308">>, legacy |-> FALSE],
    [name |-> <<"L", "e", "f", "t", "D", "o", "u", "b", "l", "e", "B", "r", "a", "c", "k", "e", "t">>, chars |-> <<"\\u27e6">>, legacy |-> FALSE],
    [name |-> <<"L", "e", "f", "t", "D", "o", "w", "n", "T", "e", "e", "V", "e", "c", "t", "o", "r">>, chars |-> <<"\\u2961">>, legacy |-> FALSE],
    [name |-> <<"L", "e", "f", "t", "D", "o", "w", "n", "V", "e", "c", "t", "o", "r">>, chars |-> <<"\\u21c3">>, legacy |-> FALSE],
    [name |-> <<"L", "e", "f", "t", "D", "o", "w", "n", "V", "e", "c", "t", "o", "r", "B", "a", "r">>, chars |-> <<"\\u2959">>, legacy |-> FALSE],
    [name |-> <<"L", "e", "f", "t", "F", "l", "o", "o", "r">>, chars |-> <<"\\u230a">>, legacy |-> FALSE],
    [name |-> <<"L", "e", "f", "t", "R", "i", "g", "h", "t", "A", "r", "r", "o", "w">>, chars |-> <<"\\u2194">>, legacy |-> FALSE],
    [name |-> <<"L", "e", "f", "t", "R", "i", "g", "h", "t", "V", "e", "c", "t", "o", "r">>, chars |-> <<"\\u294e">>, legacy |-> FALSE],
    [name |-> <<"L", "e", "f", "t", "T", "e", "e">>, chars |-> <<"\\u22a3">>, legacy |-> FALSE],
    [name |-> <<"L", "e", "f", "t", "T", "e", "e", "A", "r", "r", "o", "w">>, chars |-> <<"\\u21a4">>, legacy |-> FALSE],
    [name |-> <<"L", "e", "f", "t", "T", "e", "e", "V", "e", "c", "t", "o", "r">>, chars |-> <<"\\u295a">>, legacy |-> FALSE],
    [name |-> <<"L", "e", "f", "t", "T", "r", "i", "a", "n", "g", "l", "e">>, chars |-> <<"\\u22b2">>, legacy |-> FALSE],
    [name |-> <<"L", "e", "f", "t", "T", "r", "i", "a", "n", "g", "l", "e", "B", "a", "r">>, chars |-> <<"\\u29cf">>, legacy |-> FALSE],
    [name |-> <<"L", "e", "f", "t", "T", "r", "i", "a", "n", "g", "l", "e", "E", "q", "u", "a", "l">>, chars |-> <<"\\u22b4">>, legacy |-> FALSE],
    [name |-> <<"L", "e", "f", "t", "U", "p", "D", "o", "w", "n", "V", "e", "c", "t", "o", "r">>, chars |-> <<"\\u2951">>, legacy |-> FALSE],
    [name |-> <<"L", "e", "f", "t", "U", "p", "T", "e", "e", "V", "e", "c", "t", "o", "r">>, chars |-> <<"\\u2960">>, legacy |-> FALSE],
    [name |-> <<"L", "e", "f", "t", "U", "p", "V", "e", "c", "t", "o", "r">>, chars |-> <<"\\u21bf">>, legacy |-> FALSE],
    [name |-> <<"L", "e", "f", "t", "U", "p", "V", "e", "c", "t", "o", "r", "B", "a", "r">>, chars |-> <<"\\u2958">>, legacy |-> FALSE],
    [name |-> <<"L", "e", "f", "t", "V", "e", "c", "t", "o", "r">>, chars |-> <<"\\u21bc">>, legacy |-> FALSE],
    [name |-> <<"L", "e", "f", "t", "V", "e", "c", "t", "o", "r", "B", "a", "r">>, chars |-> <<"\\u2952">>, legacy |-> FALSE],
    [name |-> <<"L", "e", "f", "t", "a", "r", "r", "o", "w">>, chars |-> <<"\\u21d0">>, legacy |-> FALSE],
    [name |-> <<"L", "e", "f", "t", "r", "i", "g", "h", "t", "a", "r", "r", "o", "w">>, chars |-> <<"\\u21d4">>, legacy |-> FALSE],
    [name |-> <<"L", "e", "s", "s", "E", "q", "u", "a", "l", "G", "r", "e", "a", "t", "e", "r">>, chars |-> <<"\\u22da">>, legacy |-> FALSE],
    [name |-> <<"L", "e", "s", "s", "F", "u", "l", "l", "E", "q", "u", "a", "l">>, chars |-> <<"\\u2266">>, legacy |-> FALSE],
    [name |-> <<"L", "e", "s", "s", "G", "r", "e", "a", "t", "e", "r">>, chars |-> <<"\\u2276">>, legacy |-> FALSE],
    [name |-> <<"L", "e", "s", "s", "L", "e", "s", "s">>, chars |-> <<"\\u2aa1">>, legacy |-> FALSE],
    [name |-> <<"L", "e", "s", "s", "S", "l", "a", "n", "t", "E", "q", "u", "a", "l">>, chars |-> <<"\\u2a7d">>, legacy |-> FALSE],
    [name |-> <<"L", "e", "s", "s", "T", "i", "l", "d", "e">>, chars |-> <<"\\u2272">>, legacy |-> FALSE],
    [name |-> <<"L", "f", "r">>, chars |-> <<"\\U0001d50f">>, legacy |-> FALSE],
    [name |-> <<"L", "l">>, chars |-> <<"\\u22d8">>, legacy |-> FALSE],
    [name |-> <<"L", "l", "e", "f", "t", "a", "r", "r", "o", "w">>, chars |-> <<"\\u21da">>, legacy |-> FALSE],
    [name |-> <<"L", "m", "i", "d", "o", "t">>, chars |-> <<"\\u013f">>, legacy |-> FALSE],
    [name |-> <<"L", "o", "n", "g", "L", "e", "f", "t", "A", "r", "r", "o", "w">>, chars |-> <<"\\u27f5">>, legacy |-> FALSE],
    [name |-> <<"L", "o", "n", "g", "L", "e", "f", "t", "R", "i", "g", "h", "t", "A", "r", "r", "o", "w">>, chars |-> <<"\\u27f7">>, legacy |-> FALSE],
    [name |-> <<"L", "o", "n", "g", "R", "i", "g", "h", "t", "A", "r", "r", "o", "w">>, chars |-> <<"\\u27f6">>, legacy |-> FALSE],
    [name |-> <<"L", "o", "n", "g", "l", "e", "f", "t", "a", "r", "r", "o", "w">>, chars |-> <<"\\u27f8">>, legacy |-> FALSE],
    [name |-> <<"L", "o", "n", "g", "l", "e", "f", "t", "r", "i", "g", "h", "t", "a", "r", "r", "o", "w">>, chars |-> <<"\\u27fa">>, legacy |-> FALSE],
    [name |-> <<"L", "o", "n", "g", "r", "i", "g", "h", "t", "a", "r", "r", "o", "w">>, chars |-> <<"\\u27f9">>, legacy |-> FALSE],
    [name |-> <<"L", "o", "p", "f">>, chars |-> <<"\\U0001d543">>, legacy |-> FALSE],
    [name |-> <<"L", "o", "w", "e", "r", "L", "e", "f", "t", "A", "r", "r", "o", "w">>, chars |-> <<"\\u2199">>, legacy |-> FALSE],
    [name |-> <<"L", "o", "w", "e", "r", "R", "i", "g", "h", "t", "A", "r", "r", "o", "w">>, chars |-> <<"\\u2198">>, legacy |-> FALSE],
    [name |-> <<"L", "s", "c", "r">>, chars |-> <<"\\u2112">>, legacy |-> FALSE],
    [name |-> <<"L", "s", "h">>, chars |-> <<"\\u21b0">>, legacy |-> FALSE],
    [name |-> <<"L", "s", "t", "r", "o", "k">>, chars |-> <<"\\u0141">>, legacy |-> FALSE],
    [name |-> <<"L", "t">>, chars |-> <<"\\u226a">>, legacy |-> FALSE],
    [name |-> <<"M", "a", "p">>, chars |-> <<"\\u2905">>, legacy |-> FALSE],
    [name |-> <<"M", "c", "y">>, chars |-> <<"\\u041c">>, legacy |-> FALSE],
    [name |-> <<"M", "e", "d", "i", "u", "m", "S", "p", "a", "c", "e">>, chars |-> <<"\\u205f">>, legacy |-> FALSE],
    [name |-> <<"M", "e", "l", "l", "i", "n", "t", "r", "f">>, chars |-> <<"\\u2133">>, legacy |-> FALSE],
    [name |-> <<"M", "f", "r">>, chars |-> <<"\\U0001d510">>, legacy |-> FALSE],
    [name |-> <<"M", "i", "n", "u", "s", "P", "l", "u", "s">>, chars |-> <<"\\u2213">>, legacy |-> FALSE],
    [name |-> <<"M", "o", "p", "f">>, chars |-> <<"\\U0001d544">>, legacy |-> FALSE],
    [name |-> <<"M", "s", "c", "r">>, chars |-> <<"\\u2133">>, legacy |-> FALSE],
    [name |-> <<"M", "u">>, chars |-> <<"\\u039c">>, legacy |-> FALSE],
    [name |-> <<"N", "J", "c", "y">>, chars |-> <<"\\u040a">>, legacy |-> FALSE],
    [name |-> <<"N", "a", "c", "u", "t", "e">>, chars |-> <<"\\u0143">>, legacy |-> FALSE],
    [name |-> <<"N", "c", "a", "r", "o", "n">>, chars |-> <<"\\u0147">>, legacy |-> FALSE],
    [name |-> <<"N", "c", "e", "d", "i", "l">>, chars |-> <<"\\u0145">>, legacy |-> FALSE],
    [name |-> <<"N", "c", "y">>, chars |-> <<"\\u041d">>, legacy |-> FALSE],
    [name |-> <<"N", "e", "g", "a", "t", "i", "v", "e", "M", "e", "d", "i", "u", "m", "S", "p", "a", "c", "e">>, chars |-> <<"\\u200b">>, legacy |-> FALSE],
    [name |-> <<"N", "e", "g", "a", "t", "i", "v", "e", "T", "h", "i", "c", "k", "S", "p", "a", "c", "e">>, chars |-> <<"\\u200b">>, legacy |-> FALSE],
    [name |-> <<"N", "e", "g", "a", "t", "i", "v", "e", "T", "h", "i", "n", "S", "p", "a", "c", "e">>, chars |-> <<"\\u200b">>, legacy |-> FALSE],
    [name |-> <<"N", "e", "g", "a", "t", "i", "v", "e", "V", "e", "r", "y", "T", "h", "i", "n", "S", "p", "a", "c", "e">>, chars |-> <<"\\u200b">>, legacy |-> FALSE],
    [name |-> <<"N", "e", "s", "t", "e", "d", "G", "r", "e", "a", "t", "e", "r", "G", "r", "e", "a", "t", "e", "r">>, chars |-> <<"\\u226b">>, legacy |-> FALSE],
    [name |-> <<"N", "e", "s", "t", "e", "d", "L", "e", "s", "s", "L", "e", "s", "s">>, chars |-> <<"\\u226a">>, legacy |-> FALSE],
    [name |-> <<"N", "e", "w", "L", "i", "n", "e">>, chars |-> <<"\n">>, legacy |-> FALSE],
    [name |-> <<"N", "f", "r">>, chars |-> <<"\\U0001d511">>, legacy |-> FALSE],
    [name |-> <<"N", "o", "B", "r", "e", "a", "k">>, chars |-> <<"\\u2060">>, legacy |-> FALSE],
    [name |-> <<"N", "o", "n", "B", "r", "e", "a", "k", "i", "n", "g", "S", "p", "a", "c", "e">>, chars |-> <<"\\u00a0">>, legacy |-> FALSE],
    [name |-> <<"N", "o", "p", "f">>, chars |-> <<"\\u2115">>, legacy |-> FALSE],
    [name |-> <<"N", "o", "t">>, chars |-> <<"\\u2aec">>, legacy |-> FALSE],
    [name |-> <<"N", "o", "t", "C", "o", "n", "g", "r", "u", "e", "n", "t">>, chars |-> <<"\\u2262">>, legacy |-> FALSE],
    [name |-> <<"N", "o", "t", "C", "u", "p", "C", "a", "p">>, chars |-> <<"\\u226d">>, legacy |-> FALSE],
    [name |-> <<"N", "o", "t", "D", "o", "u", "b", "l", "e", "V", "e", "r", "t", "i", "c", "a", "l", "B", "a", "r">>, chars |-> <<"\\u2226">>, legacy |-> FALSE],
    [name |-> <<"N", "o", "t", "E", "l", "e", "m", "e", "n", "t">>, chars |-> <<"\\u2209">>, legacy |-> FALSE],
    [name |-> <<"N", "o", "t", "E", "q", "u", "a", "l">>, chars |-> <<"\\u2260">>, legacy |-> FALSE],
    [name |-> <<"N", "o", "t", "E", "q", "u", "a", "l", "T", "i", "l", "d", "e">>, chars |-> <<"\\u2242", "\\u0338">>, legacy |-> FALSE],
    [name |-> <<"N", "o", "t", "E", "x", "i", "s", "t", "s">>, chars |-> <<"\\u2204">>, legacy |-> FALSE],
    [name |-> <<"N", "o", "t", "G", "r", "e", "a", "t", "e", "r">>, chars |-> <<"\\u226f">>, legacy |-> FALSE],
    [name |-> <<"N", "o", "t", "G", "r", "e", "a", "t", "e", "r", "E", "q", "u", "a", "l">>, chars |-> <<"\\u2271">>, legacy |-> FALSE],
    [name |-> <<"N", "o", "t", "G", "r", "e", "a", "t", "e", "r", "F", "u", "l", "l", "E", "q", "u", "a", "l">>, chars |-> <<"\\u2267", "\\u0338">>, legacy |-> FALSE],
    [name |-> <<"N", "o", "t", "G", "r", "e", "a", "t", "e", "r", "G", "r", "e", "a", "t", "e", "r">>, chars |-> <<"\\u226b", "\\u0338">>, legacy |-> FALSE],
    [name |-> <<"N", "o", "t", "G", "r", "e", "a", "t", "e", "r", "L", "e", "s", "s">>, chars |-> <<"\\u2279">>, legacy |-> FALSE],
    [name |-> <<"N", "o", "t", "G", "r", "e", "a", "t", "e", "r", "S", "l", "a", "n", "t", "E", "q", "u", "a", "l">>, chars |-> <<"\\u2a7e", "\\u0338">>, legacy |-> FALSE],
    [name |-> <<"N", "o", "t", "G", "r", "e", "a", "t", "e", "r", "T", "i", "l", "d", "e">>, chars |-> <<"\\u2275">>, legacy |-> FALSE],
    [name |-> <<"N", "o", "t", "H", "u", "m", "p", "D", "o", "w", "n", "H", "u", "m", "p">>, chars |-> <<"\\u224e", "\\u0338">>, legacy |-> FALSE],
    [name |-> <<"N", "o", "t", "H", "u", "m", "p", "E", "q", "u", "a", "l">>, chars |-> <<"\\u224f", "\\u0338">>, legacy |-> FALSE],
    [name |-> <<"N", "o", "t", "L", "e", "f", "t", "T", "r", "i", "a", "n", "g", "l", "e">>, chars |-> <<"\\u22ea">>, legacy |-> FALSE],
    [name |-> <<"N", "o", "t", "L", "e", "f", "t", "T", "r", "i", "a", "n", "g", "l", "e", "B", "a", "r">>, chars |-> <<"\\u29cf", "\\u0338">>, legacy |-> FALSE],
    [name |-> <<"N", "o", "t", "L", "e", "f", "t", "T", "r", "i", "a", "n", "g", "l", "e", "E", "q", "u", "a", "l">>, chars |-> <<"\\u22ec">>, legacy |-> FALSE],
    [name |-> <<"N", "o", "t", "L", "e", "s", "s">>, chars |-> <<"\\u226e">>, legacy |-> FALSE],
    [name |-> <<"N", "o", "t", "L", "e", "s", "s", "E", "q", "u", "a", "l">>, chars |-> <<"\\u2270">>, legacy |-> FALSE],
    [name |-> <<"N", "o", "t", "L", "e", "s", "s", "G", "r", "e", "a", "t", "e", "r">>, chars |-> <<"\\u2278">>, legacy |-> FALSE],
    [name |-> <<"N", "o", "t", "L", "e", "s", "s", "L", "e", "s", "s">>, chars |-> <<"\\u226a", "\\u0338">>, legacy |-> FALSE],
    [name |-> <<"N", "o", "t", "L", "e", "s", "s", "S", "l", "a", "n", "t", "E", "q", "u", "a", "l">>, chars |-> <<"\\u2a7d", "\\u0338">>, legacy |-> FALSE],
    [name |-> <<"N", "o", "t", "L", "e", "s", "s", "T", "i", "l", "d", "e">>, chars |-> <<"\\u2274">>, legacy |-> FALSE],
    [name |-> <<"N", "o", "t", "N", "e", "s", "t", "e", "d", "G", "r", "e", "a", "t", "e", "r", "G", "r", "e", "a", "t", "e", "r">>, chars |-> <<"\\u2aa2", "\\u0338">>, legacy |-> FALSE],
    [name |-> <<"N", "o", "t", "N", "e", "s", "t", "e", "d", "L", "e", "s", "s", "L", "e", "s", "s">>, chars |-> <<"\\u2aa1", "\\u0338">>, legacy |-> FALSE],
    [name |-> <<"N", "o", "t", "P", "r", "e", "c", "e", "d", "e", "s">>, chars |-> <<"\\u2280">>, legacy |-> FALSE],
    [name |-> <<"N", "o", "t", "P", "r", "e", "c", "e", "d", "e", "s", "E", "q", "u", "a", "l">>, chars |-> <<"\\u2aaf", "\\u0338">>, legacy |-> FALSE],
    [name |-> <<"N", "o", "t", "P", "r", "e", "c", "e", "d", "e", "s", "S", "l", "a", "n", "t", "E", "q", "u", "a", "l">>, chars |-> <<"\\u22e0">>, legacy |-> FALSE],
    [name |-> <<"N", "o", "t", "R", "e", "v", "e", "r", "s", "e", "E", "l", "e", "m", "e", "n", "t">>, chars |-> <<"\\u220c">>, legacy |-> FALSE],
    [name |-> <<"N", "o", "t", "R", "i", "g", "h", "t", "T", "r", "i", "a", "n", "g", "l", "e">>, chars |-> <<"\\u22eb">>, legacy |-> FALSE],
    [name |-> <<"N", "o", "t", "R", "i", "g", "h", "t", "T", "r", "i", "a", "n", "g", "l", "e", "B", "a", "r">>, chars |-> <<"\\u29d0", "\\u0338">>, legacy |-> FALSE],
    [name |-> <<"N", "o", "t", "R", "i", "g", "h", "t", "T", "r", "i", "a", "n", "g", "l", "e", "E", "q", "u", "a", "l">>, chars |-> <<"\\u22ed">>, legacy |-> FALSE],
    [name |-> <<"N", "o", "t", "S", "q", "u", "a", "r", "e", "S", "u", "b", "s", "e", "t">>, chars |-> <<"\\u228f", "\\u0338">>, legacy |-> FALSE],
    [name |-> <<"N", "o", "t", "S", "q", "u", "a", "r", "e", "S", "u", "b", "s", "e", "t", "E", "q", "u", "a", "l">>, chars |-> <<"\\u22e2">>, legacy |-> FALSE],
    [name |-> <<"N", "o", "t", "S", "q", "u", "a", "r", "e", "S", "u", "p", "e", "r", "s", "e", "t">>, chars |-> <<"\\u2290", "\\u0338">>, legacy |-> FALSE],
    [name |-> <<"N", "o", "t", "S", "q", "u", "a", "r", "e", "S", "u", "p", "e", "r", "s", "e", "t", "E", "q", "u", "a", "l">>, chars |-> <<"\\u22e3">>, legacy |-> FALSE],
    [name |-> <<"N", "o", "t", "S", "u", "b", "s", "e", "t">>, chars |-> <<"\\u2282", "\\u20d2">>, legacy |-> FALSE],
    [name |-> <<"N", "o", "t", "S", "u", "b", "s", "e", "t", "E", "q", "u", "a", "l">>, chars |-> <<"\\u2288">>, legacy |-> FALSE],
    [name |-> <<"N", "o", "t", "S", "u", "c", "c", "e", "e", "d", "s">>, chars |-> <<"\\u2281">>, legacy |-> FALSE],
    [name |-> <<"N", "o", "t", "S", "u", "c", "c", "e", "e", "d", "s", "E", "q", "u", "a", "l">>, chars |-> <<"\\u2ab0", "\\u0338">>, legacy |-> FALSE],
    [name |-> <<"N", "o", "t", "S", "u", "c", "c", "e", "e", "d", "s", "S", "l", "a", "n", "t", "E", "q", "u", "a", "l">>, chars |-> <<"\\u22e1">>, legacy |-> FALSE],
    [name |-> <<"N", "o", "t", "S", "u", "c", "c", "e", "e", "d", "s", "T", "i", "l", "d", "e">>, chars |-> <<"\\u227f", "\\u0338">>, legacy |-> FALSE],
    [name |-> <<"N", "o", "t", "S", "u", "p", "e", "r", "s", "e", "t">>, chars |-> <<"\\u2283", "\\u20d2">>, legacy |-> FALSE],
    [name |-> <<"N", "o", "t", "S", "u", "p", "e", "r", "s", "e", "t", "E", "q", "u", "a", "l">>, chars |-> <<"\\u2289">>, legacy |-> FALSE],
    [name |-> <<"N", "o", "t", "T", "i", "l", "d", "e">>, chars |-> <<"\\u2241">>, legacy |-> FALSE],
    [name |-> <<"N", "o", "t", "T", "i", "l", "d", "e", "E", "q", "u", "a", "l">>, chars |-> <<"\\u2244">>, legacy |-> FALSE],
    [name |-> <<"N", "o", "t", "T", "i", "l", "d", "e", "F", "u", "l", "l", "E", "q", "u", "a", "l">>, chars |-> <<"\\u2247">>, legacy |-> FALSE],
    [name |-> <<"N", "o", "t", "T", "i", "l", "d", "e", "T", "i", "l", "d", "e">>, chars |-> <<"\\u2249">>, legacy |-> FALSE],
    [name |-> <<"N", "o", "t", "V", "e", "r", "t", "i", "c", "a", "l", "B", "a", "r">>, chars |-> <<"\\u2224">>, legacy |-> FALSE],
    [name |-> <<"N", "s", "c", "r">>, chars |-> <<"\\U0001d4a9">>, legacy |-> FALSE],
    [name |-> <<"N", "t", "i", "l", "d", "e">>, chars |-> <<"\\u00d1">>, legacy |-> TRUE],
    [name |-> <<"N", "u">>, chars |-> <<"\\u039d">>, legacy |-> FALSE],
    [name |-> <<"O", "E", "l", "i", "g">>, chars |-> <<"\\u0152">>, legacy |-> FALSE],
    [name |-> <<"O", "a", "c", "u", "t", "e">>, chars |-> <<"\\u00d3">>, legacy |-> TRUE],
    [name |-> <<"O", "c", "i", "r", "c">>, chars |-> <<"\\u00d4">>, legacy |-> TRUE],
    [name |-> <<"O", "c", "y">>, chars |-> <<"\\u041e">>, legacy |-> FALSE],
    [name |-> <<"O", "d", "b", "l", "a", "c">>, chars |-> <<"\\u0150">>, legacy |-> FALSE],
    [name |-> <<"O", "f", "r">>, chars |-> <<"\\U0001d512">>, legacy |-> FALSE],
    [name |-> <<"O", "g", "r", "a", "v", "e">>, chars |-> <<"\\u00d2">>, legacy |-> TRUE],
    [name |-> <<"O", "m", "a", "c", "r">>, chars |-> <<"\\u014c">>, legacy |-> FALSE],
    [name |-> <<"O", "m", "e", "g", "a">>, chars |-> <<"\\u03a9">>, legacy |-> FALSE],
    [name |-> <<"O", "m", "i", "c", "r", "o", "n">>, chars |-> <<"\\u039f">>, legacy |-> FALSE],
    [name |-> <<"O", "o", "p", "f">>, chars |-> <<"\\U0001d546">>, legacy |-> FALSE],
    [name |-> <<"O", "p", "e", "n", "C", "u", "r", "l", "y", "D", "o", "u", "b", "l", "e", "Q", "u", "o", "t", "e">>, chars |-> <<"\\u201c">>, legacy |-> FALSE],
    [name |-> <<"O", "p", "e", "n", "C", "u", "r", "l", "y", "Q", "u", "o", "t", "e">>, chars |-> <<"\\u2018">>, legacy |-> FALSE],
    [name |-> <<"O", "r">>, chars |-> <<"\\u2a54">>, legacy |-> FALSE],
    [name |-> <<"O", "s", "c", "r">>, chars |-> <<"\\U0001d4aa">>, legacy |-> FALSE],
    [name |-> <<"O", "s", "l", "a", "s", "h">>, chars |-> <<"\\u00d8">>, legacy |-> TRUE],
    [name |-> <<"O", "t", "i", "l", "d", "e">>, chars |-> <<"\\u00d5">>, legacy |-> TRUE],
    [name |-> <<"O", "t", "i", "m", "e", "s">>, chars |-> <<"\\u2a37">>, legacy |-> FALSE],
    [name |-> <<"O", "u", "m", "l">>, chars |-> <<"\\u00d6">>, legacy |-> TRUE],
    [name |-> <<"O", "v", "e", "r", "B", "a", "r">>, chars |-> <<"\\u203e">>, legacy |-> FALSE],
    [name |-> <<"O", "v", "e", "r", "B", "r", "a", "c", "e">>, chars |-> <<"\\u23de">>, legacy |-> FALSE],
    [name |-> <<"O", "v", "e", "r", "B", "r", "a", "c", "k", "e", "t">>, chars |-> <<"\\u23b4">>, legacy |-> FALSE],
    [name |-> <<"O", "v", "e", "r", "P", "a", "r", "e", "n", "t", "h", "e", "s", "i", "s">>, chars |-> <<"\\u23dc">>, legacy |-> FALSE],
    [name |-> <<"P", "a", "r", "t", "i", "a", "l", "D">>, chars |-> <<"\\u2202">>, legacy |-> FALSE],
    [name |-> <<"P", "c", "y">>, chars |-> <<"\\u041f">>, legacy |-> FALSE],
    [name |-> <<"P", "f", "r">>, chars |-> <<"\\U0001d513">>, legacy |-> FALSE],
    [name |-> <<"P", "h", "i">>, chars |-> <<"\\u03a6">>, legacy |-> FALSE],
    [name |-> <<"P", "i">>, chars |-> <<"\\u03a0">>, legacy |-> FALSE],
    [name |-> <<"P", "l", "u", "s", "M", "i", "n", "u", "s">>, chars |-> <<"\\u00b1">>, legacy |-> FALSE],
    [name |-> <<"P", "o", "i", "n", "c", "a", "r", "e", "p", "l", "a", "n", "e">>, chars |-> <<"\\u210c">>, legacy |-> FALSE],
    [name |-> <<"P", "o", "p", "f">>, chars |-> <<"\\u2119">>, legacy |-> FALSE],
    [name |-> <<"P", "r">>, chars |-> <<"\\u2abb">>, legacy |-> FALSE],
    [name |-> <<"P", "r", "e", "c", "e", "d", "e", "s">>, chars |-> <<"\\u227a">>, legacy |-> FALSE],
    [name |-> <<"P", "r", "e", "c", "e", "d", "e", "s", "E", "q", "u", "a", "l">>, chars |-> <<"\\u2aaf">>, legacy |-> FALSE],
    [name |-> <<"P", "r", "e", "c", "e", "d", "e", "s", "S", "l", "a", "n", "t", "E", "q", "u", "a", "l">>, chars |-> <<"\\u227c">>, legacy |-> FALSE],
    [name |-> <<"P", "r", "e", "c", "e", "d", "e", "s", "T", "i", "l", "d", "e">>, chars |-> <<"\\u227e">>, legacy |-> FALSE],
    [name |-> <<"P", "r", "i", "m", "e">>, chars |-> <<"\\u2033">>, legacy |-> FALSE],
    [name |-> <<"P", "r", "o", "d", "u", "c", "t">>, chars |-> <<"\\u220f">>, legacy |-> FALSE],
    [name |-> <<"P", "r", "o", "p", "o", "r", "t", "i", "o", "n">>, chars |-> <<"\\u2237">>, legacy |-> FALSE],
    [name |-> <<"P", "r", "o", "p", "o", "r", "t", "i", "o", "n", "a", "l">>, chars |-> <<"\\u221d">>, legacy |-> FALSE],
    [name |-> <<"P", "s", "c", "r">>, chars |-> <<"\\U0001d4ab">>, legacy |-> FALSE],
    [name |-> <<"P", "s", "i">>, chars |-> <<"\\u03a8">>, legacy |-> FALSE],
    [name |-> <<"Q", "U", "O", "T">>, chars |-> <<"\"">>, legacy |-> TRUE],
    [name |-> <<"Q", "f", "r">>, chars |-> <<"\\U0001d514">>, legacy |-> FALSE],
    [name |-> <<"Q", "o", "p", "f">>, chars |-> <<"\\u211a">>, legacy |-> FALSE],
    [name |-> <<"Q", "s", "c", "r">>, chars |-> <<"\\U0001d4ac">>, legacy |-> FALSE],
    [name |-> <<"R", "B", "a", "r", "r">>, chars |-> <<"\\u2910">>, legacy |-> FALSE],
    [name |-> <<"R", "E", "G">>, chars |-> <<"\\u00ae">>, legacy |-> TRUE],
    [name |-> <<"R", "a", "c", "u", "t", "e">>, chars |-> <<"\\u0154">>, legacy |-> FALSE],
    [name |-> <<"R", "a", "n", "g">>, chars |-> <<"\\u27eb">>, legacy |-> FALSE],
    [name |-> <<"R", "a", "r", "r">>, chars |-> <<"\\u21a0">>, legacy |-> FALSE],
    [name |-> <<"R", "a", "r", "r", "t", "l">>, chars |-> <<"\\u2916">>, legacy |-> FALSE],
    [name |-> <<"R", "c", "a", "r", "o", "n">>, chars |-> <<"\\u0158">>, legacy |-> FALSE],
    [name |-> <<"R", "c", "e", "d", "i", "l">>, chars |-> <<"\\u0156">>, legacy |-> FALSE],
    [name |-> <<"R", "c", "y">>, chars |-> <<"\\u0420">>, legacy |-> FALSE],
    [name |-> <<"R", "e">>, chars |-> <<"\\u211c">>, legacy |-> FALSE],
    [name |-> <<"R", "e", "v", "e", "r", "s", "e", "E", "l", "e", "m", "e", "n", "t">>, chars |-> <<"\\u220b">>, legacy |-> FALSE],
    [name |-> <<"R", "e", "v", "e", "r", "s", "e", "E", "q", "u", "i", "l", "i", "b", "r", "i", "u", "m">>, chars |-> <<"\\u21cb">>, legacy |-> FALSE],
    [name |-> <<"R", "e", "v", "e", "r", "s", "e", "U", "p", "E", "q", "u", "i", "l", "i", "b", "r", "i", "u", "m">>, chars |-> <<"\\u296f">>, legacy |-> FALSE],
    [name |-> <<"R", "f", "r">>, chars |-> <<"\\u211c">>, legacy |-> FALSE],
    [name |-> <<"R", "h", "o">>, chars |-> <<"\\u03a1">>, legacy |-> FALSE],
    [name |-> <<"R", "i", "g", "h", "t", "A", "n", "g", "l", "e", "B", "r", "a", "c", "k", "e", "t">>, chars |-> <<"\\u27e9">>, legacy |-> FALSE],
    [name |-> <<"R", "i", "g", "h", "t", "A", "r", "r", "o", "w">>, chars |-> <<"\\u2192">>, legacy |-> FALSE],
    [name |-> <<"R", "i", "g", "h", "t", "A", "r", "r", "o", "w", "B", "a", "r">>, chars |-> <<"\\u21e5">>, legacy |-> FALSE],
    [name |-> <<"R", "i", "g", "h", "t", "A", "r", "r", "o", "w", "L", "e", "f", "t", "A", "r", "r", "o", "w">>, chars |-> <<"\\u21c4">>, legacy |-> FALSE],
    [name |-> <<"R", "i", "g", "h", "t", "C", "e", "i", "l", "i", "n", "g">>, chars |-> <<"\\u2309">>, legacy |-> FALSE],
    [name |-> <<"R", "i", "g", "h", "t", "D", "o", "u", "b", "l", "e", "B", "r", "a", "c", "k", "e", "t">>, chars |-> <<"\\u27e7">>, legacy |-> FALSE],
    [name |-> <<"R", "i", "g", "h", "t", "D", "o", "w", "n", "T", "e", "e", "V", "e", "c", "t", "o", "r">>, chars |-> <<"\\u295d">>, legacy |-> FALSE],
    [name |-> <<"R", "i", "g", "h", "t", "D", "o", "w", "n", "V", "e", "c", "t", "o", "r">>, chars |-> <<"\\u21c2">>, legacy |-> FALSE],
    [name |-> <<"R", "i", "g", "h", "t", "D", "o", "w", "n", "V", "e", "c", "t", "o", "r", "B", "a", "r">>, chars |-> <<"\\u2955">>, legacy |-> FALSE],
    [name |-> <<"R", "i", "g", "h", "t", "F", "l", "o", "o", "r">>, chars |-> <<"\\u230b">>, legacy |-> FALSE],
    [name |-> <<"R", "i", "g", "h", "t", "T", "e", "e">>, chars |-> <<"\\u22a2">>, legacy |-> FALSE],
    [name |-> <<"R", "i", "g", "h", "t", "T", "e", "e", "A", "r", "r", "o", "w">>, chars |-> <<"\\u21a6">>, legacy |-> FALSE],
    [name |-> <<"R", "i", "g", "h", "t", "T", "e", "e", "V", "e", "c", "t", "o", "r">>, chars |-> <<"\\u295b">>, legacy |-> FALSE],
    [name |-> <<"R", "i", "g", "h", "t", "T", "r", "i", "a", "n", "g", "l", "e">>, chars |-> <<"\\u22b3">>, legacy |-> FALSE],
    [name |-> <<"R", "i", "g", "h", "t", "T", "r", "i", "a", "n", "g", "l", "e", "B", "a", "r">>, chars |-> <<"\\u29d0">>, legacy |-> FALSE],
    [name |-> <<"R", "i", "g", "h", "t", "T", "r", "i", "a", "n", "g", "l", "e", "E", "q", "u", "a", "l">>, chars |-> <<"\\u22b5">>, legacy |-> FALSE],
    [name |-> <<"R", "i", "g", "h", "t", "U", "p", "D", "o", "w", "n", "V", "e", "c", "t", "o", "r">>, chars |-> <<"\\u294f">>, legacy |-> FALSE],
    [name |-> <<"R", "i", "g", "h", "t", "U", "p", "T", "e", "e", "V", "e", "c", "t", "o", "r">>, chars |-> <<"\\u295c">>, legacy |-> FALSE],
    [name |-> <<"R", "i", "g", "h", "t", "U", "p", "V", "e", "c", "t", "o", "r">>, chars |-> <<"\\u21be">>, legacy |-> FALSE],
    [name |-> <<"R", "i", "g", "h", "t", "U", "p", "V", "e", "c", "t", "o", "r", "B", "a", "r">>, chars |-> <<"\\u2954">>, legacy |-> FALSE],
    [name |-> <<"R", "i", "g", "h", "t", "V", "e", "c", "t", "o", "r">>, chars |-> <<"\\u21c0">>, legacy |-> FALSE],
    [name |-> <<"R", "i", "g", "h", "t", "V", "e", "c", "t", "o", "r", "B", "a", "r">>, chars |-> <<"\\u2953">>, legacy |-> FALSE],
    [name |-> <<"R", "i", "g", "h", "t", "a", "r", "r", "o", "w">>, chars |-> <<"\\u21d2">>, legacy |-> FALSE],
    [name |-> <<"R", "o", "p", "f">>, chars |-> <<"\\u211d">>, legacy |-> FALSE],
    [name |-> <<"R", "o", "u", "n", "d", "I", "m", "p", "l", "i", "e", "s">>, chars |-> <<"\\u2970">>, legacy |-> FALSE],
    [name |-> <<"R", "r", "i", "g", "h", "t", "a", "r", "r", "o", "w">>, chars |-> <<"\\u21db">>, legacy |-> FALSE],
    [name |-> <<"R", "s", "c", "r">>, chars |-> <<"\\u211b">>, legacy |-> FALSE],
    [name |-> <<"R", "s", "h">>, chars |-> <<"\\u21b1">>, legacy |-> FALSE],
    [name |-> <<"R", "u", "l", "e", "D", "e", "l", "a", "y", "e", "d">>, chars |-> <<"\\u29f4">>, legacy |-> FALSE],
    [name |-> <<"S", "H", "C", "H", "c", "y">>, chars |-> <<"\\u0429">>, legacy |-> FALSE],
    [name |-> <<"S", "H", "c", "y">>, chars |-> <<"\\u0428">>, legacy |-> FALSE],
    [name |-> <<"S", "O", "F", "T", "c", "y">>, chars |-> <<"\\u042c">>, legacy |-> FALSE],
    [name |-> <<"S", "a", "c", "u", "t", "e">>, chars |-> <<"\\u015a">>, legacy |-> FALSE],
    [name |-> <<"S", "c">>, chars |-> <<"\\u2abc">>, legacy |-> FALSE],
    [name |-> <<"S", "c", "a", "r", "o", "n">>, chars |-> <<"\\u0160">>, legacy |-> FALSE],
    [name |-> <<"S", "c", "e", "d", "i", "l">>, chars |-> <<"\\u015e">>, legacy |-> FALSE],
    [name |-> <<"S", "c", "i", "r", "c">>, chars |-> <<"\\u015c">>, legacy |-> FALSE],
    [name |-> <<"S", "c", "y">>, chars |-> <<"\\u0421">>, legacy |-> FALSE],
    [name |-> <<"S", "f", "r">>, chars |-> <<"\\U0001d516">>, legacy |-> FALSE],
    [name |-> <<"S", "h", "o", "r", "t", "D", "o", "w", "n", "A", "r", "r", "o", "w">>, chars |-> <<"\\u2193">>, legacy |-> FALSE],
    [name |-> <<"S", "h", "o", "r", "t", "L", "e", "f", "t", "A", "r", "r", "o", "w">>, chars |-> <<"\\u2190">>, legacy |-> FALSE],
    [name |-> <<"S", "h", "o", "r", "t", "R", "i", "g", "h", "t", "A", "r", "r", "o", "w">>, chars |-> <<"\\u2192">>, legacy |-> FALSE],
    [name |-> <<"S", "h", "o", "r", "t", "U", "p", "A", "r", "r", "o", "w">>, chars |-> <<"\\u2191">>, legacy |-> FALSE],
    [name |-> <<"S", "i", "g", "m", "a">>, chars |-> <<"\\u03a3">>, legacy |-> FALSE],
    [name |-> <<"S", "m", "a", "l", "l", "C", "i", "r", "c", "l", "e">>, chars |-> <<"\\u2218">>, legacy |-> FALSE],
    [name |-> <<"S", "o", "p", "f">>, chars |-> <<"\\U0001d54a">>, legacy |-> FALSE],
    [name |-> <<"S", "q", "r", "t">>, chars |-> <<"\\u221a">>, legacy |-> FALSE],
    [name |-> <<"S", "q", "u", "a", "r", "e">>, chars |-> <<"\\u25a1">>, legacy |-> FALSE],
    [name |-> <<"S", "q", "u", "a", "r", "e", "I", "n", "t", "e", "r", "s", "e", "c", "t", "i", "o", "n">>, chars |-> <<"\\u2293">>, legacy |-> FALSE],
    [name |-> <<"S", "q", "u", "a", "r", "e", "S", "u", "b", "s", "e", "t">>, chars |-> <<"\\u228f">>, legacy |-> FALSE],
    [name |-> <<"S", "q", "u", "a", "r", "e", "S", "u", "b", "s", "e", "t", "E", "q", "u", "a", "l">>, chars |-> <<"\\u2291">>, legacy |-> FALSE],
    [name |-> <<"S", "q", "u", "a", "r", "e", "S", "u", "p", "e", "r", "s", "e", "t">>, chars |-> <<"\\u2290">>, legacy |-> FALSE],
    [name |-> <<"S", "q", "u", "a", "r", "e", "S", "u", "p", "e", "r", "s", "e", "t", "E", "q", "u", "a", "l">>, chars |-> <<"\\u2292">>, legacy |-> FALSE],
    [name |-> <<"S", "q", "u", "a", "r", "e", "U", "n", "i", "o", "n">>, chars |-> <<"\\u2294">>, legacy |-> FALSE],
    [name |-> <<"S", "s", "c", "r">>, chars |-> <<"\\U0001d4ae">>, legacy |-> FALSE],
    [name |-> <<"S", "t", "a", "r">>, chars |-> <<"\\u22c6">>, legacy |-> FALSE],
    [name |-> <<"S", "u", "b">>, chars |-> <<"\\u22d0">>, legacy |-> FALSE],
    [name |-> <<"S", "u", "b", "s", "e", "t">>, chars |-> <<"\\u22d0">>, legacy |-> FALSE],
    [name |-> <<"S", "u", "b", "s", "e", "t", "E", "q", "u", "a", "l">>, chars |-> <<"\\u2286">>, legacy |-> FALSE],
    [name |-> <<"S", "u", "c", "c", "e", "e", "d", "s">>, chars |-> <<"\\u227b">>, legacy |-> FALSE],
    [name |-> <<"S", "u", "c", "c", "e", "e", "d", "s", "E", "q", "u", "a", "l">>, chars |-> <<"\\u2ab0">>, legacy |-> FALSE],
    [name |-> <<"S", "u", "c", "c", "e", "e", "d", "s", "S", "l", "a", "n", "t", "E", "q", "u", "a", "l">>, chars |-> <<"\\u227d">>, legacy |-> FALSE],
    [name |-> <<"S", "u", "c", "c", "e", "e", "d", "s", "T", "i", "l", "d", "e">>, chars |-> <<"\\u227f">>, legacy |-> FALSE],
    [name |-> <<"S", "u", "c", "h", "T", "h", "a", "t">>, chars |-> <<"\\u220b">>, legacy |-> FALSE],
    [name |-> <<"S", "u", "m">>, chars |-> <<"\\u2211">>, legacy |-> FALSE],
    [name |-> <<"S", "u", "p">>, chars |-> <<"\\u22d1">>, legacy |-> FALSE],
    [name |-> <<"S", "u", "p", "e", "r", "s", "e", "t">>, chars |-> <<"\\u2283">>, legacy |-> FALSE],
    [name |-> <<"S", "u", "p", "e", "r", "s", "e", "t", "E", "q", "u", "a", "l">>, chars |-> <<"\\u2287">>, legacy |-> FALSE],
    [name |-> <<"S", "u", "p", "s", "e", "t">>, chars |-> <<"\\u22d1">>, legacy |-> FALSE],
    [name |-> <<"T", "H", "O", "R", "N">>, chars |-> <<"\\u00de">>, legacy |-> TRUE],
    [name |-> <<"T", "R", "A", "D", "E">>, chars |-> <<"\\u2122">>, legacy |-> FALSE],
    [name |-> <<"T", "S", "H", "c", "y">>, chars |-> <<"\\u040b">>, legacy |-> FALSE],
    [name |-> <<"T", "S", "c", "y">>, chars |-> <<"\\u0426">>, legacy |-> FALSE],
    [name |-> <<"T", "a", "b">>, chars |-> <<"\t">>, legacy |-> FALSE],
    [name |-> <<"T", "a", "u">>, chars |-> <<"\\u03a4">>, legacy |-> FALSE],
    [name |-> <<"T", "c", "a", "r", "o", "n">>, chars |-> <<"\\u0164">>, legacy |-> FALSE],
    [name |-> <<"T", "c", "e", "d", "i", "l">>, chars |-> <<"\\u0162">>, legacy |-> FALSE],
    [name |-> <<"T", "c", "y">>, chars |-> <<"\\u0422">>, legacy |-> FALSE],
    [name |-> <<"T", "f", "r">>, chars |-> <<"\\U0001d517">>, legacy |-> FALSE],
    [name |-> <<"T", "h", "e", "r", "e", "f", "o", "r", "e">>, chars |-> <<"\\u2234">>, legacy |-> FALSE],
    [name |-> <<"T", "h", "e", "t", "a">>, chars |-> <<"\\u0398">>, legacy |-> FALSE],
    [name |-> <<"T", "h", "i", "c", "k", "S", "p", "a", "c", "e">>, chars |-> <<"\\u205f", "\\u200a">>, legacy |-> FALSE],
    [name |-> <<"T", "h", "i", "n", "S", "p", "a", "c", "e">>, chars |-> <<"\\u2009">>, legacy |-> FALSE],
    [name |-> <<"T", "i", "l", "d", "e">>, chars |-> <<"\\u223c">>, legacy |-> FALSE],
    [name |-> <<"T", "i", "l", "d", "e", "E", "q", "u", "a", "l">>, chars |-> <<"\\u2243">>, legacy |-> FALSE],
    [name |-> <<"T", "i", "l", "d", "e", "F", "u", "l", "l", "E", "q", "u", "a", "l">>, chars |-> <<"\\u2245">>, legacy |-> FALSE],
    [name |-> <<"T", "i", "l", "d", "e", "T", "i", "l", "d", "e">>, chars |-> <<"\\u2248">>, legacy |-> FALSE],
    [name |-> <<"T", "o", "p", "f">>, chars |-> <<"\\U0001d54b">>, legacy |-> FALSE],
    [name |-> <<"T", "r", "i", "p", "l", "e", "D", "o", "t">>, chars |-> <<"\\u20db">>, legacy |-> FALSE],
    [name |-> <<"T", "s", "c", "r">>, chars |-> <<"\\U0001d4af">>, legacy |-> FALSE],
    [name |-> <<"T", "s", "t", "r", "o", "k">>, chars |-> <<"\\u0166">>, legacy |-> FALSE],
    [name |-> <<"U", "a", "c", "u", "t", "e">>, chars |-> <<"\\u00da">>, legacy |-> TRUE],
    [name |-> <<"U", "a", "r", "r">>, chars |-> <<"\\u219f">>, legacy |-> FALSE],
    [name |-> <<"U", "a", "r", "r", "o", "c", "i", "r">>, chars |-> <<"\\u2949">>, legacy |-> FALSE],
    [name |-> <<"U", "b", "r", "c", "y">>, chars |-> <<"\\u040e">>, legacy |-> FALSE],
    [name |-> <<"U", "b", "r", "e", "v", "e">>, chars |-> <<"\\u016c">>, legacy |-> FALSE],
    [name |-> <<"U", "c", "i", "r", "c">>, chars |-> <<"\\u00db">>, legacy |-> TRUE],
    [name |-> <<"U", "c", "y">>, chars |-> <<"\\u0423">>, legacy |-> FALSE],
    [name |-> <<"U", "d", "b", "l", "a", "c">>, chars |-> <<"\\u0170">>, legacy |-> FALSE],
    [name |-> <<"U", "f", "r">>, chars |-> <<"\\U0001d518">>, legacy |-> FALSE],
    [name |-> <<"U", "g", "r", "a", "v", "e">>, chars |-> <<"\\u00d9">>, legacy |-> TRUE],
    [name |-> <<"U", "m", "a", "c", "r">>, chars |-> <<"\\u016a">>, legacy |-> FALSE],
    [name |-> <<"U", "n", "d", "e", "r", "B", "a", "r">>, chars |-> <<"_">>, legacy |-> FALSE],
    [name |-> <<"U", "n", "d", "e", "r", "B", "r", "a", "c", "e">>, chars |-> <<"\\u23df">>, legacy |-> FALSE],
    [name |-> <<"U", "n", "d", "e", "r", "B", "r", "a", "c", "k", "e", "t">>, chars |-> <<"\\u23b5">>, legacy |-> FALSE],
    [name |-> <<"U", "n", "d", "e", "r", "P", "a", "r", "e", "n", "t", "h", "e", "s", "i", "s">>, chars |-> <<"\\u23dd">>, legacy |-> FALSE],
    [name |-> <<"U", "n", "i", "o", "n">>, chars |-> <<"\\u22c3">>, legacy |-> FALSE],
    [name |-> <<"U", "n", "i", "o", "n", "P", "l", "u", "s">>, chars |-> <<"\\u228e">>, legacy |-> FALSE],
    [name |-> <<"U", "o", "g", "o", "n">>, chars |-> <<"\\u0172">>, legacy |-> FALSE],
    [name |-> <<"U", "o", "p", "f">>, chars |-> <<"\\U0001d54c">>, legacy |-> FALSE],
    [name |-> <<"U", "p", "A", "r", "r", "o", "w">>, chars |-> <<"\\u2191">>, legacy |-> FALSE],
    [name |-> <<"U", "p", "A", "r", "r", "o", "w", "B", "a", "r">>, chars |-> <<"\\u2912">>, legacy |-> FALSE],
    [name |-> <<"U", "p", "A", "r", "r", "o", "w", "D", "o", "w", "n", "A", "r", "r", "o", "w">>, chars |-> <<"\\u21c5">>, legacy |-> FALSE],
    [name |-> <<"U", "p", "D", "o", "w", "n", "A", "r", "r", "o", "w">>, chars |-> <<"\\u2195">>, legacy |-> FALSE],
    [name |-> <<"U", "p", "E", "q", "u", "i", "l", "i", "b", "r", "i", "u", "m">>, chars |-> <<"\\u296e">>, legacy |-> FALSE],
    [name |-> <<"U", "p", "T", "e", "e">>, chars |-> <<"\\u22a5">>, legacy |-> FALSE],
    [name |-> <<"U", "p", "T", "e", "e", "A", "r", "r", "o", "w">>, chars |-> <<"\\u21a5">>, legacy |-> FALSE],
    [name |-> <<"U", "p", "a", "r", "r", "o", "w">>, chars |-> <<"\\u21d1">>, legacy |-> FALSE],
    [name |-> <<"U", "p", "d", "o", "w", "n", "a", "r", "r", "o", "w">>, chars |-> <<"\\u21d5">>, legacy |-> FALSE],
    [name |-> <<"U", "p", "p", "e", "r", "L", "e", "f", "t", "A", "r", "r", "o", "w">>, chars |-> <<"\\u2196">>, legacy |-> FALSE],
    [name |-> <<"U", "p", "p", "e", "r", "R", "i", "g", "h", "t", "A", "r", "r", "o", "w">>, chars |-> <<"\\u2197">>, legacy |-> FALSE],
    [name |-> <<"U", "p", "s", "i">>, chars |-> <<"\\u03d2">>, legacy |-> FALSE],
    [name |-> <<"U", "p", "s", "i", "l", "o", "n">>, chars |-> <<"\\u03a5">>, legacy |-> FALSE],
    [name |-> <<"U", "r", "i", "n", "g">>, chars |-> <<"\\u016e">>, legacy |-> FALSE],
    [name |-> <<"U", "s", "c", "r">>, chars |-> <<"\\U0001d4b0">>, legacy |-> FALSE],
    [name |-> <<"U", "t", "i", "l", "d", "e">>, chars |-> <<"\\u0168">>, legacy |-> FALSE],
    [name |-> <<"U", "u", "m", "l">>, chars |-> <<"\\u00dc">>, legacy |-> TRUE],
    [name |-> <<"V", "D", "a", "s", "h">>, chars |-> <<"\\u22ab">>, legacy |-> FALSE],
    [name |-> <<"V", "b", "a", "r">>, chars |-> <<"\\u2aeb">>, legacy |-> FALSE],
    [name |-> <<"V", "c", "y">>, chars |-> <<"\\u0412">>, legacy |-> FALSE],
    [name |-> <<"V", "d", "a", "s", "h">>, chars |-> <<"\\u22a9">>, legacy |-> FALSE],
    [name |-> <<"V", "d", "a", "s", "h", "l">>, chars |-> <<"\\u2ae6">>, legacy |-> FALSE],
    [name |-> <<"V", "e", "e">>, chars |-> <<"\\u22c1">>, legacy |-> FALSE],
    [name |-> <<"V", "e", "r", "b", "a", "r">>, chars |-> <<"\\u2016">>, legacy |-> FALSE],
    [name |-> <<"V", "e", "r", "t">>, chars |-> <<"\\u2016">>, legacy |-> FALSE],
    [name |-> <<"V", "e", "r", "t", "i", "c", "a", "l", "B", "a", "r">>, chars |-> <<"\\u2223">>, legacy |-> FALSE],
    [name |-> <<"V", "e", "r", "t", "i", "c", "a", "l", "L", "i", "n", "e">>, chars |-> <<"|">>, legacy |-> FALSE],
    [name |-> <<"V", "e", "r", "t", "i", "c", "a", "l", "S", "e", "p", "a", "r", "a", "t", "o", "r">>, chars |-> <<"\\u2758">>, legacy |-> FALSE],
    [name |-> <<"V", "e", "r", "t", "i", "c", "a", "l", "T", "i", "l", "d", "e">>, chars |-> <<"\\u2240">>, legacy |-> FALSE],
    [name |-> <<"V", "e", "r", "y", "T", "h", "i", "n", "S", "p", "a", "c", "e">>, chars |-> <<"\\u200a">>, legacy |-> FALSE],
    [name |-> <<"V", "f", "r">>, chars |-> <<"\\U0001d519">>, legacy |-> FALSE],
    [name |-> <<"V", "o", "p", "f">>, chars |-> <<"\\U0001d54d">>, legacy |-> FALSE],
    [name |-> <<"V", "s", "c", "r">>, chars |-> <<"\\U0001d4b1">>, legacy |-> FALSE],
    [name |-> <<"V", "v", "d", "a", "s", "h">>, chars |-> <<"\\u22aa">>, legacy |-> FALSE],
    [name |-> <<"W", "c", "i", "r", "c">>, chars |-> <<"\\u0174">>, legacy |-> FALSE],
    [name |-> <<"W", "e", "d", "g", "e">>, chars |-> <<"\\u22c0">>, legacy |-> FALSE],
    [name |-> <<"W", "f", "r">>, chars |-> <<"\\U0001d51a">>, legacy |-> FALSE],
    [name |-> <<"W", "o", "p", "f">>, chars |-> <<"\\U0001d54e">>, legacy |-> FALSE],
    [name |-> <<"W", "s", "c", "r">>, chars |-> <<"\\U0001d4b2">>, legacy |-> FALSE],
    [name |-> <<"X", "f", "r">>, chars |-> <<"\\U0001d51b">>, legacy |-> FALSE],
    [name |-> <<"X", "i">>, chars |-> <<"\\u039e">>, legacy |-> FALSE],
    [name |-> <<"X", "o", "p", "f">>, chars |-> <<"\\U0001d54f">>, legacy |-> FALSE],
    [name |-> <<"X", "s", "c", "r">>, chars |-> <<"\\U0001d4b3">>, legacy |-> FALSE],
    [name |-> <<"Y", "A", "c", "y">>, chars |-> <<"\\u042f">>, legacy |-> FALSE],
    [name |-> <<"Y", "I", "c", "y">>, chars |-> <<"\\u0407">>, legacy |-> FALSE],
    [name |-> <<"Y", "U", "c", "y">>, chars |-> <<"\\u042e">>, legacy |-> FALSE],
    [name |-> <<"Y", "a", "c", "u", "t", "e">>, chars |-> <<"\\u00dd">>, legacy |-> TRUE],
    [name |-> <<"Y", "c", "i", "r", "c">>, chars |-> <<"\\u0176">>, legacy |-> FALSE],
    [name |-> <<"Y", "c", "y">>, chars |-> <<"\\u042b">>, legacy |-> FALSE],
    [name |-> <<"Y", "f", "r">>, chars |-> <<"\\U0001d51c">>, legacy |-> FALSE],
    [name |-> <<"Y", "o", "p", "f">>, chars |-> <<"\\U0001d550">>, legacy |-> FALSE],
    [name |-> <<"Y", "s", "c", "r">>, chars |-> <<"\\U0001d4b4">>, legacy |-> FALSE],
    [name |-> <<"Y", "u", "m", "l">>, chars |-> <<"\\u0178">>, legacy |-> FALSE],
    [name |-> <<"Z", "H", "c", "y">>, chars |-> <<"\\u0416">>, legacy |-> FALSE],
    [name |-> <<"Z", "a", "c", "u", "t", "e">>, chars |-> <<"\\u0179">>, legacy |-> FALSE],
    [name |-> <<"Z", "c", "a", "r", "o", "n">>, chars |-> <<"\\u017d">>, legacy |-> FALSE],
    [name |-> <<"Z", "c", "y">>, chars |-> <<"\\u0417">>, legacy |-> FALSE],
    [name |-> <<"Z", "d", "o", "t">>, chars |-> <<"\\u017b">>, legacy |-> FALSE],
    [name |-> <<"Z", "e", "r", "o", "W", "i", "d", "t", "h", "S", "p", "a", "c", "e">>, chars |-> <<"\\u200b">>, legacy |-> FALSE],
    [name |-> <<"Z", "e", "t", "a">>, chars |-> <<"\\u0396">>, legacy |-> FALSE],
    [name |-> <<"Z", "f", "r">>, chars |-> <<"\\u2128">>, legacy |-> FALSE],
    [name |-> <<"Z", "o", "p", "f">>, chars |-> <<"\\u2124">>, legacy |-> FALSE],
    [name |-> <<"Z", "s", "c", "r">>, chars |-> <<"\\U0001d4b5">>, legacy |-> FALSE],
    [name |-> <<"a", "a", "c", "u", "t", "e">>, chars |-> <<"\\u00e1">>, legacy |-> TRUE],
    [name |-> <<"a", "b", "r", "e", "v", "e">>, chars |-> <<"\\u0103">>, legacy |-> FALSE],
    [name |-> <<"a", "c">>, chars |-> <<"\\u223e">>, legacy |-> FALSE],
    [name |-> <<"a", "c", "E">>, chars |-> <<"\\u223e", "\\u0333">>, legacy |-> FALSE],
    [name |-> <<"a", "c", "d">>, chars |-> <<"\\u223f">>, legacy |-> FALSE],
    [name |-> <<"a", "c", "i", "r", "c">>, chars |-> <<"\\u00e2">>, legacy |-> TRUE],
    [name |-> <<"a", "c", "u", "t", "e">>, chars |-> <<"\\u00b4">>, legacy |-> TRUE],
    [name |-> <<"a", "c", "y">>, chars |-> <<"\\u0430">>, legacy |-> FALSE],
    [name |-> <<"a", "e", "l", "i", "g">>, chars |-> <<"\\u00e6">>, legacy |-> TRUE],
    [name |-> <<"a", "f">>, chars |-> <<"\\u2061">>, legacy |-> FALSE],
    [name |-> <<"a", "f", "r">>, chars |-> <<"\\U0001d51e">>, legacy |-> FALSE],
    [name |-> <<"a", "g", "r", "a", "v", "e">>, chars |-> <<"\\u00e0">>, legacy |-> TRUE],
    [name |-> <<"a", "l", "e", "f", "s", "y", "m">>, chars |-> <<"\\u2135">>, legacy |-> FALSE],
    [name |-> <<"a", "l", "e", "p", "h">>, chars |-> <<"\\u2135">>, legacy |-> FALSE],
    [name |-> <<"a", "l", "p", "h", "a">>, chars |-> <<"\\u03b1">>, legacy |-> FALSE],
    [name |-> <<"a", "m", "a", "c", "r">>, chars |-> <<"\\u0101">>, legacy |-> FALSE],
    [name |-> <<"a", "m", "a", "l", "g">>, chars |-> <<"\\u2a3f">>, legacy |-> FALSE],
    [name |-> <<"a", "m", "p">>, chars |-> <<"&">>, legacy |-> TRUE],
    [name |-> <<"a", "n", "d">>, chars |-> <<"\\u2227">>, legacy |-> FALSE],
    [name |-> <<"a", "n", "d", "a", "n", "d">>, chars |-> <<"\\u2a55">>, legacy |-> FALSE],
    [name |-> <<"a", "n", "d", "d">>, chars |-> <<"\\u2a5c">>, legacy |-> FALSE],
    [name |-> <<"a", "n", "d", "s", "l", "o", "p", "e">>, chars |-> <<"\\u2a58">>, legacy |-> FALSE],
    [name |-> <<"a", "n", "d", "v">>, chars |-> <<"\\u2a5a">>, legacy |-> FALSE],
    [name |-> <<"a", "n", "g">>, chars |-> <<"\\u2220">>, legacy |-> FALSE],
    [name |-> <<"a", "n", "g", "e">>, chars |-> <<"\\u29a4">>, legacy |-> FALSE],
    [name |-> <<"a", "n", "g", "l", "e">>, chars |-> <<"\\u2220">>, legacy |-> FALSE],
    [name |-> <<"a", "n", "g", "m", "s", "d">>, chars |-> <<"\\u2221">>, legacy |-> FALSE],
    [name |-> <<"a", "n", "g", "m", "s", "d", "a", "a">>, chars |-> <<"\\u29a8">>, legacy |-> FALSE],
    [name |-> <<"a", "n", "g", "m", "s", "d", "a", "b">>, chars |-> <<"\\u29a9">>, legacy |-> FALSE],
    [name |-> <<"a", "n", "g", "m", "s", "d", "a", "c">>, chars |-> <<"\\u29aa">>, legacy |-> FALSE],
    [name |-> <<"a", "n", "g", "m", "s", "d", "a", "d">>, chars |-> <<"\\u29ab">>, legacy |-> FALSE],
    [name |-> <<"a", "n", "g", "m", "s", "d", "a", "e">>, chars |-> <<"\\u29ac">>, legacy |-> FALSE],
    [name |-> <<"a", "n", "g", "m", "s", "d", "a", "f">>, chars |-> <<"\\u29ad">>, legacy |-> FALSE],
    [name |-> <<"a", "n", "g", "m", "s", "d", "a", "g">>, chars |-> <<"\\u29ae">>, legacy |-> FALSE],
    [name |-> <<"a", "n", "g", "m", "s", "d", "a", "h">>, chars |-> <<"\\u29af">>, legacy |-> FALSE],
    [name |-> <<"a", "n", "g", "r", "t">>, chars |-> <<"\\u221f">>, legacy |-> FALSE],
    [name |-> <<"a", "n", "g", "r", "t", "v", "b">>, chars |-> <<"\\u22be">>, legacy |-> FALSE],
    [name |-> <<"a", "n", "g", "r", "t", "v", "b", "d">>, chars |-> <<"\\u299d">>, legacy |-> FALSE],
    [name |-> <<"a", "n", "g", "s", "p", "h">>, chars |-> <<"\\u2222">>, legacy |-> FALSE],
    [name |-> <<"a", "n", "g", "s", "t">>, chars |-> <<"\\u00c5">>, legacy |-> FALSE],
    [name |-> <<"a", "n", "g", "z", "a", "r", "r">>, chars |-> <<"\\u237c">>, legacy |-> FALSE],
    [name |-> <<"a", "o", "g", "o", "n">>, chars |-> <<"\\u0105">>, legacy |-> FALSE],
    [name |-> <<"a", "o", "p", "f">>, chars |-> <<"\\U0001d552">>, legacy |-> FALSE],
    [name |-> <<"a", "p">>, chars |-> <<"\\u2248">>, legacy |-> FALSE],
    [name |-> <<"a", "p", "E">>, chars |-> <<"\\u2a70">>, legacy |-> FALSE],
    [name |-> <<"a", "p", "a", "c", "i", "r">>, chars |-> <<"\\u2a6f">>, legacy |-> FALSE],
    [name |-> <<"a", "p", "e">>, chars |-> <<"\\u224a">>, legacy |-> FALSE],
    [name |-> <<"a", "p", "i", "d">>, chars |-> <<"\\u224b">>, legacy |-> FALSE],
    [name |-> <<"a", "p", "o", "s">>, chars |-> <<"'">>, legacy |-> FALSE],
    [name |-> <<"a", "p", "p", "r", "o", "x">>, chars |-> <<"\\u2248">>, legacy |-> FALSE],
    [name |-> <<"a", "p", "p", "r", "o", "x", "e", "q">>, chars |-> <<"\\u224a">>, legacy |-> FALSE],
    [name |-> <<"a", "r", "i", "n", "g">>, chars |-> <<"\\u00e5">>, legacy |-> TRUE],
    [name |-> <<"a", "s", "c", "r">>, chars |-> <<"\\U0001d4b6">>, legacy |-> FALSE],
    [name |-> <<"a", "s", "t">>, chars |-> <<"*">>, legacy |-> FALSE],
    [name |-> <<"a", "s", "y", "m", "p">>, chars |-> <<"\\u2248">>, legacy |-> FALSE],
    [name |-> <<"a", "s", "y", "m", "p", "e", "q">>, chars |-> <<"\\u224d">>, legacy |-> FALSE],
    [name |-> <<"a", "t", "i", "l", "d", "e">>, chars |-> <<"\\u00e3">>, legacy |-> TRUE],
    [name |-> <<"a", "u", "m", "l">>, chars |-> <<"\\u00e4">>, legacy |-> TRUE],
    [name |-> <<"a", "w", "c", "o", "n", "i", "n", "t">>, chars |-> <<"\\u2233">>, legacy |-> FALSE],
    [name |-> <<"a", "w", "i", "n", "t">>, chars |-> <<"\\u2a11">>, legacy |-> FALSE],
    [name |-> <<"b", "N", "o", "t">>, chars |-> <<"\\u2aed">>, legacy |-> FALSE],
    [name |-> <<"b", "a", "c", "k", "c", "o", "n", "g">>, chars |-> <<"\\u224c">>, legacy |-> FALSE],
    [name |-> <<"b", "a", "c", "k", "e", "p", "s", "i", "l", "o", "n">>, chars |-> <<"\\u03f6">>, legacy |-> FALSE],
    [name |-> <<"b", "a", "c", "k", "p", "r", "i", "m", "e">>, chars |-> <<"\\u2035">>, legacy |-> FALSE],
    [name |-> <<"b", "a", "c", "k", "s", "i", "m">>, chars |-> <<"\\u223d">>, legacy |-> FALSE],
    [name |-> <<"b", "a", "c", "k", "s", "i", "m", "e", "q">>, chars |-> <<"\\u22cd">>, legacy |-> FALSE],
    [name |-> <<"b", "a", "r", "v", "e", "e">>, chars |-> <<"\\u22bd">>, legacy |-> FALSE],
    [name |-> <<"b", "a", "r", "w", "e", "d">>, chars |-> <<"\\u2305">>, legacy |-> FALSE],
    [name |-> <<"b", "a", "r", "w", "e", "d", "g", "e">>, chars |-> <<"\\u2305">>, legacy |-> FALSE],
    [name |-> <<"b", "b", "r", "k">>, chars |-> <<"\\u23b5">>, legacy |-> FALSE],
    [name |-> <<"b", "b", "r", "k", "t", "b", "r", "k">>, chars |-> <<"\\u23b6">>, legacy |-> FALSE],
    [name |-> <<"b", "c", "o", "n", "g">>, chars |-> <<"\\u224c">>, legacy |-> FALSE],
    [name |-> <<"b", "c", "y">>, chars |-> <<"\\u0431">>, legacy |-> FALSE],
    [name |-> <<"b", "d", "q", "u", "o">>, chars |-> <<"\\u201e">>, legacy |-> FALSE],
    [name |-> <<"b", "e", "c", "a", "u", "s">>, chars |-> <<"\\u2235">>, legacy |-> FALSE],
    [name |-> <<"b", "e", "c", "a", "u", "s", "e">>, chars |-> <<"\\u2235">>, legacy |-> FALSE],
    [name |-> <<"b", "e", "m", "p", "t", "y", "v">>, chars |-> <<"\\u29b0">>, legacy |-> FALSE],
    [name |-> <<"b", "e", "p", "s", "i">>, chars |-> <<"\\u03f6">>, legacy |-> FALSE],
    [name |-> <<"b", "e", "r", "n", "o", "u">>, chars |-> <<"\\u212c">>, legacy |-> FALSE],
    [name |-> <<"b", "e", "t", "a">>, chars |-> <<"\\u03b2">>, legacy |-> FALSE],
    [name |-> <<"b", "e", "t", "h">>, chars |-> <<"\\u2136">>, legacy |-> FALSE],
    [name |-> <<"b", "e", "t", "w", "e", "e", "n">>, chars |-> <<"\\u226c">>, legacy |-> FALSE],
    [name |-> <<"b", "f", "r">>, chars |-> <<"\\U0001d51f">>, legacy |-> FALSE],
    [name |-> <<"b", "i", "g", "c", "a", "p">>, chars |-> <<"\\u22c2">>, legacy |-> FALSE],
    [name |-> <<"b", "i", "g", "c", "i", "r", "c">>, chars |-> <<"\\u25ef">>, legacy |-> FALSE],
    [name |-> <<"b", "i", "g", "c", "u", "p">>, chars |-> <<"\\u22c3">>, legacy |-> FALSE],
    [name |-> <<"b", "i", "g", "o", "d", "o", "t">>, chars |-> <<"\\u2a00">>, legacy |-> FALSE],
    [name |-> <<"b", "i", "g", "o", "p", "l", "u", "s">>, chars |-> <<"\\u2a01">>, legacy |-> FALSE],
    [name |-> <<"b", "i", "g", "o", "t", "i", "m", "e", "s">>, chars |-> <<"\\u2a02">>, legacy |-> FALSE],
    [name |-> <<"b", "i", "g", "s", "q", "c", "u", "p">>, chars |-> <<"\\u2a06">>, legacy |-> FALSE],
    [name |-> <<"b", "i", "g", "s", "t", "a", "r">>, chars |-> <<"\\u2605">>, legacy |-> FALSE],
    [name |-> <<"b", "i", "g", "t", "r", "i", "a", "n", "g", "l", "e", "d", "o", "w", "n">>, chars |-> <<"\\u25bd">>, legacy |-> FALSE],
    [name |-> <<"b", "i", "g", "t", "r", "i", "a", "n", "g", "l", "e", "u", "p">>, chars |-> <<"\\u25b3">>, legacy |-> FALSE],
    [name |-> <<"b", "i", "g", "u", "p", "l", "u", "s">>, chars |-> <<"\\u2a04">>, legacy |-> FALSE],
    [name |-> <<"b", "i", "g", "v", "e", "e">>, chars |-> <<"\\u22c1">>, legacy |-> FALSE],
    [name |-> <<"b", "i", "g", "w", "e", "d", "g", "e">>, chars |-> <<"\\u22c0">>, legacy |-> FALSE],
    [name |-> <<"b", "k", "a", "r", "o", "w">>, chars |-> <<"\\u290d">>, legacy |-> FALSE],
    [name |-> <<"b", "l", "a", "c", "k", "l", "o", "z", "e", "n", "g", "e">>, chars |-> <<"\\u29eb">>, legacy |-> FALSE],
    [name |-> <<"b", "l", "a", "c", "k", "s", "q", "u", "a", "r", "e">>, chars |-> <<"\\u25aa">>, legacy |-> FALSE],
    [name |-> <<"b", "l", "a", "c", "k", "t", "r", "i", "a", "n", "g", "l", "e">>, chars |-> <<"\\u25b4">>, legacy |-> FALSE],
    [name |-> <<"b", "l", "a", "c", "k", "t", "r", "i", "a", "n", "g", "l", "e", "d", "o", "w", "n">>, chars |-> <<"\\u25be">>, legacy |-> FALSE],
    [name |-> <<"b", "l", "a", "c", "k", "t", "r", "i", "a", "n", "g", "l", "e", "l", "e", "f", "t">>, chars |-> <<"\\u25c2">>, legacy |-> FALSE],
    [name |-> <<"b", "l", "a", "c", "k", "t", "r", "i", "a", "n", "g", "l", "e", "r", "i", "g", "h", "t">>, chars |-> <<"\\u25b8">>, legacy |-> FALSE],
    [name |-> <<"b", "l", "a", "n", "k">>, chars |-> <<"\\u2423">>, legacy |-> FALSE],
    [name |-> <<"b", "l", "k", "1", "2">>, chars |-> <<"\\u2592">>, legacy |-> FALSE],
    [name |-> <<"b", "l", "k", "1", "4">>, chars |-> <<"\\u2591">>, legacy |-> FALSE],
    [name |-> <<"b", "l", "k", "3", "4">>, chars |-> <<"\\u2593">>, legacy |-> FALSE],
    [name |-> <<"b", "l", "o", "c", "k">>, chars |-> <<"\\u2588">>, legacy |-> FALSE],
    [name |-> <<"b", "n", "e">>, chars |-> <<"=", "\\u20e5">>, legacy |-> FALSE],
    [name |-> <<"b", "n", "e", "q", "u", "i", "v">>, chars |-> <<"\\u2261", "\\u20e5">>, legacy |-> FALSE],
    [name |-> <<"b", "n", "o", "t">>, chars |-> <<"\\u2310">>, legacy |-> FALSE],
    [name |-> <<"b", "o", "p", "f">>, chars |-> <<"\\U0001d553">>, legacy |-> FALSE],
    [name |-> <<"b", "o", "t">>, chars |-> <<"\\u22a5">>, legacy |-> FALSE],
    [name |-> <<"b", "o", "t", "t", "o", "m">>, chars |-> <<"\\u22a5">>, legacy |-> FALSE],
    [name |-> <<"b", "o", "w", "t", "i", "e">>, chars |-> <<"\\u22c8">>, legacy |-> FALSE],
    [name |-> <<"b", "o", "x", "D", "L">>, chars |-> <<"\\u2557">>, legacy |-> FALSE],
    [name |-> <<"b", "o", "x", "D", "R">>, chars |-> <<"\\u2554">>, legacy |-> FALSE],
    [name |-> <<"b", "o", "x", "D", "l">>, chars |-> <<"\\u2556">>, legacy |-> FALSE],
    [name |-> <<"b", "o", "x", "D", "r">>, chars |-> <<"\\u2553">>, legacy |-> FALSE],
    [name |-> <<"b", "o", "x", "H">>, chars |-> <<"\\u2550">>, legacy |-> FALSE],
    [name |-> <<"b", "o", "x", "H", "D">>, chars |-> <<"\\u2566">>, legacy |-> FALSE],
    [name |-> <<"b", "o", "x", "H", "U">>, chars |-> <<"\\u2569">>, legacy |-> FALSE],
    [name |-> <<"b", "o", "x", "H", "d">>, chars |-> <<"\\u2564">>, legacy |-> FALSE],
    [name |-> <<"b", "o", "x", "H", "u">>, chars |-> <<"\\u2567">>, legacy |-> FALSE],
    [name |-> <<"b", "o", "x", "U", "L">>, chars |-> <<"\\u255d">>, legacy |-> FALSE],
    [name |-> <<"b", "o", "x", "U", "R">>, chars |-> <<"\\u255a">>, legacy |-> FALSE],
    [name |-> <<"b", "o", "x", "U", "l">>, chars |-> <<"\\u255c">>, legacy |-> FALSE],
    [name |-> <<"b", "o", "x", "U", "r">>, chars |-> <<"\\u2559">>, legacy |-> FALSE],
    [name |-> <<"b", "o", "x", "V">>, chars |-> <<"\\u2551">>, legacy |-> FALSE],
    [name |-> <<"b", "o", "x", "V", "H">>, chars |-> <<"\\u256c">>, legacy |-> FALSE],
    [name |-> <<"b", "o", "x", "V", "L">>, chars |-> <<"\\u2563">>, legacy |-> FALSE],
    [name |-> <<"b", "o", "x", "V", "R">>, chars |-> <<"\\u2560">>, legacy |-> FALSE],
    [name |-> <<"b", "o", "x", "V", "h">>, chars |-> <<"\\u256b">>, legacy |-> FALSE],
    [name |-> <<"b", "o", "x", "V", "l">>, chars |-> <<"\\u2562">>, legacy |-> FALSE],
    [name |-> <<"b", "o", "x", "V", "r">>, chars |-> <<"\\u255f">>, legacy |-> FALSE],
    [name |-> <<"b", "o", "x", "b", "o", "x">>, chars |-> <<"\\u29c9">>, legacy |-> FALSE],
    [name |-> <<"b", "o", "x", "d", "L">>, chars |-> <<"\\u2555">>, legacy |-> FALSE],
    [name |-> <<"b", "o", "x", "d", "R">>, chars |-> <<"\\u2552">>, legacy |-> FALSE],
    [name |-> <<"b", "o", "x", "d", "l">>, chars |-> <<"\\u2510">>, legacy |-> FALSE],
    [name |-> <<"b", "o", "x", "d", "r">>, chars |-> <<"\\u250c">>, legacy |-> FALSE],
    [name |-> <<"b", "o", "x", "h">>, chars |-> <<"\\u2500">>, legacy |-> FALSE],
    [name |-> <<"b", "o", "x", "h", "D">>, chars |-> <<"\\u2565">>, legacy |-> FALSE],
    [name |-> <<"b", "o", "x", "h", "U">>, chars |-> <<"\\u2568">>, legacy |-> FALSE],
    [name |-> <<"b", "o", "x", "h", "d">>, chars |-> <<"\\u252c">>, legacy |-> FALSE],
    [name |-> <<"b", "o", "x", "h", "u">>, chars |-> <<"\\u2534">>, legacy |-> FALSE],
    [name |-> <<"b", "o", "x", "m", "i", "n", "u", "s">>, chars |-> <<"\\u229f">>, legacy |-> FALSE],
    [name |-> <<"b", "o", "x", "p", "l", "u", "s">>, chars |-> <<"\\u229e">>, legacy |-> FALSE],
    [name |-> <<"b", "o", "x", "t", "i", "m", "e", "s">>, chars |-> <<"\\u22a0">>, legacy |-> FALSE],
    [name |-> <<"b", "o", "x", "u", "L">>, chars |-> <<"\\u255b">>, legacy |-> FALSE],
    [name |-> <<"b", "o", "x", "u", "R">>, chars |-> <<"\\u2558">>, legacy |-> FALSE],
    [name |-> <<"b", "o", "x", "u", "l">>, chars |-> <<"\\u2518">>, legacy |-> FALSE],
    [name |-> <<"b", "o", "x", "u", "r">>, chars |-> <<"\\u2514">>, legacy |-> FALSE],
    [name |-> <<"b", "o", "x", "v">>, chars |-> <<"\\u2502">>, legacy |-> FALSE],
    [name |-> <<"b", "o", "x", "v", "H">>, chars |-> <<"\\u256a">>, legacy |-> FALSE],
    [name |-> <<"b", "o", "x", "v", "L">>, chars |-> <<"\\u2561">>, legacy |-> FALSE],
    [name |-> <<"b", "o", "x", "v", "R">>, chars |-> <<"\\u255e">>, legacy |-> FALSE],
    [name |-> <<"b", "o", "x", "v", "h">>, chars |-> <<"\\u253c">>, legacy |-> FALSE],
    [name |-> <<"b", "o", "x", "v", "l">>, chars |-> <<"\\u2524">>, legacy |-> FALSE],
    [name |-> <<"b", "o", "x", "v", "r">>, chars |-> <<"\\u251c">>, legacy |-> FALSE],
    [name |-> <<"b", "p", "r", "i", "m", "e">>, chars |-> <<"\\u2035">>, legacy |-> FALSE],
    [name |-> <<"b", "r", "e", "v", "e">>, chars |-> <<"\\u02d8">>, legacy |-> FALSE],
    [name |-> <<"b", "r", "v", "b", "a", "r">>, chars |-> <<"\\u00a6">>, legacy |-> TRUE],
    [name |-> <<"b", "s", "c", "r">>, chars |-> <<"\\U0001d4b7">>, legacy |-> FALSE],
    [name |-> <<"b", "s", "e", "m", "i">>, chars |-> <<"\\u204f">>, legacy |-> FALSE],
    [name |-> <<"b", "s", "i", "m">>, chars |-> <<"\\u223d">>, legacy |-> FALSE],
    [name |-> <<"b", "s", "i", "m", "e">>, chars |-> <<"\\u22cd">>, legacy |-> FALSE],
    [name |-> <<"b", "s", "o", "l">>, chars |-> <<"\\">>, legacy |-> FALSE],
    [name |-> <<"b", "s", "o", "l", "b">>, chars |-> <<"\\u29c5">>, legacy |-> FALSE],
    [name |-> <<"b", "s", "o", "l", "h", "s", "u", "b">>, chars |-> <<"\\u27c8">>, legacy |-> FALSE],
    [name |-> <<"b", "u", "l", "l">>, chars |-> <<"\\u2022">>, legacy |-> FALSE],
    [name |-> <<"b", "u", "l", "l", "e", "t">>, chars |-> <<"\\u2022">>, legacy |-> FALSE],
    [name |-> <<"b", "u", "m", "p">>, chars |-> <<"\\u224e">>, legacy |-> FALSE],
    [name |-> <<"b", "u", "m", "p", "E">>, chars |-> <<"\\u2aae">>, legacy |-> FALSE],
    [name |-> <<"b", "u", "m", "p", "e">>, chars |-> <<"\\u224f">>, legacy |-> FALSE],
    [name |-> <<"b", "u", "m", "p", "e", "q">>, chars |-> <<"\\u224f">>, legacy |-> FALSE],
    [name |-> <<"c", "a", "c", "u", "t", "e">>, chars |-> <<"\\u0107">>, legacy |-> FALSE],
    [name |-> <<"c", "a", "p">>, chars |-> <<"\\u2229">>, legacy |-> FALSE],
    [name |-> <<"c", "a", "p", "a", "n", "d">>, chars |-> <<"\\u2a44">>, legacy |-> FALSE],
    [name |-> <<"c", "a", "p", "b", "r", "c", "u", "p">>, chars |-> <<"\\u2a49">>, legacy |-> FALSE],
    [name |-> <<"c", "a", "p", "c", "a", "p">>, chars |-> <<"\\u2a4b">>, legacy |-> FALSE],
    [name |-> <<"c", "a", "p", "c", "u", "p">>, chars |-> <<"\\u2a47">>, legacy |-> FALSE],
    [name |-> <<"c", "a", "p", "d", "o", "t">>, chars |-> <<"\\u2a40">>, legacy |-> FALSE],
    [name |-> <<"c", "a", "p", "s">>, chars |-> <<"\\u2229", "\\ufe00">>, legacy |-> FALSE],
    [name |-> <<"c", "a", "r", "e", "t">>, chars |-> <<"\\u2041">>, legacy |-> FALSE],
    [name |-> <<"c", "a", "r", "o", "n">>, chars |-> <<"\\u02c7">>, legacy |-> FALSE],
    [name |-> <<"c", "c", "a", "p", "s">>, chars |-> <<"\\u2a4d">>, legacy |-> FALSE],
    [name |-> <<"c", "c", "a", "r", "o", "n">>, chars |-> <<"\\u010d">>, legacy |-> FALSE],
    [name |-> <<"c", "c", "e", "d", "i", "l">>, chars |-> <<"\\u00e7">>, legacy |-> TRUE],
    [name |-> <<"c", "c", "i", "r", "c">>, chars |-> <<"\\u0109">>, legacy |-> FALSE],
    [name |-> <<"c", "c", "u", "p", "s">>, chars |-> <<"\\u2a4c">>, legacy |-> FALSE],
    [name |-> <<"c", "c", "u", "p", "s", "s", "m">>, chars |-> <<"\\u2a50">>, legacy |-> FALSE],
    [name |-> <<"c", "d", "o", "t">>, chars |-> <<"\\u010b">>, legacy |-> FALSE],
    [name |-> <<"c", "e", "d", "i", "l">>, chars |-> <<"\\u00b8">>, legacy |-> TRUE],
    [name |-> <<"c", "e", "m", "p", "t", "y", "v">>, chars |-> <<"\\u29b2">>, legacy |-> FALSE],
    [name |-> <<"c", "e", "n", "t">>, chars |-> <<"\\u00a2">>, legacy |-> TRUE],
    [name |-> <<"c", "e", "n", "t", "e", "r", "d", "o", "t">>, chars |-> <<"\\u00b7">>, legacy |-> FALSE],
    [name |-> <<"c", "f", "r">>, chars |-> <<"\\U0001d520">>, legacy |-> FALSE],
    [name |-> <<"c", "h", "c", "y">>, chars |-> <<"\\u0447">>, legacy |-> FALSE],
    [name |-> <<"c", "h", "e", "c", "k">>, chars |-> <<"\\u2713">>, legacy |-> FALSE],
    [name |-> <<"c", "h", "e", "c", "k", "m", "a", "r", "k">>, chars |-> <<"\\u2713">>, legacy |-> FALSE],
    [name |-> <<"c", "h", "i">>, chars |-> <<"\\u03c7">>, legacy |-> FALSE],
    [name |-> <<"c", "i", "r">>, chars |-> <<"\\u25cb">>, legacy |-> FALSE],
    [name |-> <<"c", "i", "r", "E">>, chars |-> <<"\\u29c3">>, legacy |-> FALSE],
    [name |-> <<"c", "i", "r", "c">>, chars |-> <<"\\u02c6">>, legacy |-> FALSE],
    [name |-> <<"c", "i", "r", "c", "e", "q">>, chars |-> <<"\\u2257">>, legacy |-> FALSE],
    [name |-> <<"c", "i", "r", "c", "l", "e", "a", "r", "r", "o", "w", "l", "e", "f", "t">>, chars |-> <<"\\u21ba">>, legacy |-> FALSE],
    [name |-> <<"c", "i", "r", "c", "l", "e", "a", "r", "r", "o", "w", "r", "i", "g", "h", "t">>, chars |-> <<"\\u21bb">>, legacy |-> FALSE],
    [name |-> <<"c", "i", "r", "c", "l", "e", "d", "R">>, chars |-> <<"\\u00ae">>, legacy |-> FALSE],
    [name |-> <<"c", "i", "r", "c", "l", "e", "d", "S">>, chars |-> <<"\\u24c8">>, legacy |-> FALSE],
    [name |-> <<"c", "i", "r", "c", "l", "e", "d", "a", "s", "t">>, chars |-> <<"\\u229b">>, legacy |-> FALSE],
    [name |-> <<"c", "i", "r", "c", "l", "e", "d", "c", "i", "r", "c">>, chars |-> <<"\\u229a">>, legacy |-> FALSE],
    [name |-> <<"c", "i", "r", "c", "l", "e", "d", "d", "a", "s", "h">>, chars |-> <<"\\u229d">>, legacy |-> FALSE],
    [name |-> <<"c", "i", "r", "e">>, chars |-> <<"\\u2257">>, legacy |-> FALSE],
    [name |-> <<"c", "i", "r", "f", "n", "i", "n", "t">>, chars |-> <<"\\u2a10">>, legacy |-> FALSE],
    [name |-> <<"c", "i", "r", "m", "i", "d">>, chars |-> <<"\\u2aef">>, legacy |-> FALSE],
    [name |-> <<"c", "i", "r", "s", "c", "i", "r">>, chars |-> <<"\\u29c2">>, legacy |-> FALSE],
    [name |-> <<"c", "l", "u", "b", "s">>, chars |-> <<"\\u2663">>, legacy |-> FALSE],
    [name |-> <<"c", "l", "u", "b", "s", "u", "i", "t">>, chars |-> <<"\\u2663">>, legacy |-> FALSE],
    [name |-> <<"c", "o", "l", "o", "n">>, chars |-> <<":">>, legacy |-> FALSE],
    [name |-> <<"c", "o", "l", "o", "n", "e">>, chars |-> <<"\\u2254">>, legacy |-> FALSE],
    [name |-> <<"c", "o", "l", "o", "n", "e", "q">>, chars |-> <<"\\u2254">>, legacy |-> FALSE],
    [name |-> <<"c", "o", "m", "m", "a">>, chars |-> <<",">>, legacy |-> FALSE],
    [name |-> <<"c", "o", "m", "m", "a", "t">>, chars |-> <<"@">>, legacy |-> FALSE],
    [name |-> <<"c", "o", "m", "p">>, chars |-> <<"\\u2201">>, legacy |-> FALSE],
    [name |-> <<"c", "o", "m", "p", "f", "n">>, chars |-> <<"\\u2218">>, legacy |-> FALSE],
    [name |-> <<"c", "o", "m", "p", "l", "e", "m", "e", "n", "t">>, chars |-> <<"\\u2201">>, legacy |-> FALSE],
    [name |-> <<"c", "o", "m", "p", "l", "e", "x", "e", "s">>, chars |-> <<"\\u2102">>, legacy |-> FALSE],
    [name |-> <<"c", "o", "n", "g">>, chars |-> <<"\\u2245">>, legacy |-> FALSE],
    [name |-> <<"c", "o", "n", "g", "d", "o", "t">>, chars |-> <<"\\u2a6d">>, legacy |-> FALSE],
    [name |-> <<"c", "o", "n", "i", "n", "t">>, chars |-> <<"\\u222e">>, legacy |-> FALSE],
    [name |-> <<"c", "o", "p", "f">>, chars |-> <<"\\U0001d554">>, legacy |-> FALSE],
    [name |-> <<"c", "o", "p", "r", "o", "d">>, chars |-> <<"\\u2210">>, legacy |-> FALSE],
    [name |-> <<"c", "o", "p", "y">>, chars |-> <<"\\u00a9">>, legacy |-> TRUE],
    [name |-> <<"c", "o", "p", "y", "s", "r">>, chars |-> <<"\\u2117">>, legacy |-> FALSE],
    [name |-> <<"c", "r", "a", "r", "r">>, chars |-> <<"\\u21b5">>, legacy |-> FALSE],
    [name |-> <<"c", "r", "o", "s", "s">>, chars |-> <<"\\u2717">>, legacy |-> FALSE],
    [name |-> <<"c", "s", "c", "r">>, chars |-> <<"\\U0001d4b8">>, legacy |-> FALSE],
    [name |-> <<"c", "s", "u", "b">>, chars |-> <<"\\u2acf">>, legacy |-> FALSE],
    [name |-> <<"c", "s", "u", "b", "e">>, chars |-> <<"\\u2ad1">>, legacy |-> FALSE],
    [name |-> <<"c", "s", "u", "p">>, chars |-> <<"\\u2ad0">>, legacy |-> FALSE],
    [name |-> <<"c", "s", "u", "p", "e">>, chars |-> <<"\\u2ad2">>, legacy |-> FALSE],
    [name |-> <<"c", "t", "d", "o", "t">>, chars |-> <<"\\u22ef">>, legacy |-> FALSE],
    [name |-> <<"c", "u", "d", "a", "r", "r", "l">>, chars |-> <<"\\u2938">>, legacy |-> FALSE],
    [name |-> <<"c", "u", "d", "a", "r", "r", "r">>, chars |-> <<"\\u2935">>, legacy |-> FALSE],
    [name |-> <<"c", "u", "e", "p", "r">>, chars |-> <<"\\u22de">>, legacy |-> FALSE],
    [name |-> <<"c", "u", "e", "s", "c">>, chars |-> <<"\\u22df">>, legacy |-> FALSE],
    [name |-> <<"c", "u", "l", "a", "r", "r">>, chars |-> <<"\\u21b6">>, legacy |-> FALSE],
    [name |-> <<"c", "u", "l", "a", "r", "r", "p">>, chars |-> <<"\\u293d">>, legacy |-> FALSE],
    [name |-> <<"c", "u", "p">>, chars |-> <<"\\u222a">>, legacy |-> FALSE],
    [name |-> <<"c", "u", "p", "b", "r", "c", "a", "p">>, chars |-> <<"\\u2a48">>, legacy |-> FALSE],
    [name |-> <<"c", "u", "p", "c", "a", "p">>, chars |-> <<"\\u2a46">>, legacy |-> FALSE],
    [name |-> <<"c", "u", "p", "c", "u", "p">>, chars |-> <<"\\u2a4a">>, legacy |-> FALSE],
    [name |-> <<"c", "u", "p", "d", "o", "t">>, chars |-> <<"\\u228d">>, legacy |-> FALSE],
    [name |-> <<"c", "u", "p", "o", "r">>, chars |-> <<"\\u2a45">>, legacy |-> FALSE],
    [name |-> <<"c", "u", "p", "s">>, chars |-> <<"\\u222a", "\\ufe00">>, legacy |-> FALSE],
    [name |-> <<"c", "u", "r", "a", "r", "r">>, chars |-> <<"\\u21b7">>, legacy |-> FALSE],
    [name |-> <<"c", "u", "r", "a", "r", "r", "m">>, chars |-> <<"\\u293c">>, legacy |-> FALSE],
    [name |-> <<"c", "u", "r", "l", "y", "e", "q", "p", "r", "e", "c">>, chars |-> <<"\\u22de">>, legacy |-> FALSE],
    [name |-> <<"c", "u", "r", "l", "y", "e", "q", "s", "u", "c", "c">>, chars |-> <<"\\u22df">>, legacy |-> FALSE],
    [name |-> <<"c", "u", "r", "l", "y", "v", "e", "e">>, chars |-> <<"\\u22ce">>, legacy |-> FALSE],
    [name |-> <<"c", "u", "r", "l", "y", "w", "e", "d", "g", "e">>, chars |-> <<"\\u22cf">>, legacy |-> FALSE],
    [name |-> <<"c", "u", "r", "r", "e", "n">>, chars |-> <<"\\u00a4">>, legacy |-> TRUE],
    [name |-> <<"c", "u", "r", "v", "e", "a", "r", "r", "o", "w", "l", "e", "f", "t">>, chars |-> <<"\\u21b6">>, legacy |-> FALSE],
    [name |-> <<"c", "u", "r", "v", "e", "a", "r", "r", "o", "w", "r", "i", "g", "h", "t">>, chars |-> <<"\\u21b7">>, legacy |-> FALSE],
    [name |-> <<"c", "u", "v", "e", "e">>, chars |-> <<"\\u22ce">>, legacy |-> FALSE],
    [name |-> <<"c", "u", "w", "e", "d">>, chars |-> <<"\\u22cf">>, legacy |-> FALSE],
    [name |-> <<"c", "w", "c", "o", "n", "i", "n", "t">>, chars |-> <<"\\u2232">>, legacy |-> FALSE],
    [name |-> <<"c", "w", "i", "n", "t">>, chars |-> <<"\\u2231">>, legacy |-> FALSE],
    [name |-> <<"c", "y", "l", "c", "t", "y">>, chars |-> <<"\\u232d">>, legacy |-> FALSE],
    [name |-> <<"d", "A", "r", "r">>, chars |-> <<"\\u21d3">>, legacy |-> FALSE],
    [name |-> <<"d", "H", "a", "r">>, chars |-> <<"\\u2965">>, legacy |-> FALSE],
    [name |-> <<"d", "a", "g", "g", "e", "r">>, chars |-> <<"\\u2020">>, legacy |-> FALSE],
    [name |-> <<"d", "a", "l", "e", "t", "h">>, chars |-> <<"\\u2138">>, legacy |-> FALSE],
    [name |-> <<"d", "a", "r", "r">>, chars |-> <<"\\u2193">>, legacy |-> FALSE],
    [name |-> <<"d", "a", "s", "h">>, chars |-> <<"\\u2010">>, legacy |-> FALSE],
    [name |-> <<"d", "a", "s", "h", "v">>, chars |-> <<"\\u22a3">>, legacy |-> FALSE],
    [name |-> <<"d", "b", "k", "a", "r", "o", "w">>, chars |-> <<"\\u290f">>, legacy |-> FALSE],
    [name |-> <<"d", "b", "l", "a", "c">>, chars |-> <<"\\u02dd">>, legacy |-> FALSE],
    [name |-> <<"d", "c", "a", "r", "o", "n">>, chars |-> <<"\\u010f">>, legacy |-> FALSE],
    [name |-> <<"d", "c", "y">>, chars |-> <<"\\u0434">>, legacy |-> FALSE],
    [name |-> <<"d", "d">>, chars |-> <<"\\u2146">>, legacy |-> FALSE],
    [name |-> <<"d", "d", "a", "g", "g", "e", "r">>, chars |-> <<"\\u2021">>, legacy |-> FALSE],
    [name |-> <<"d", "d", "a", "r", "r">>, chars |-> <<"\\u21ca">>, legacy |-> FALSE],
    [name |-> <<"d", "d", "o", "t", "s", "e", "q">>, chars |-> <<"\\u2a77">>, legacy |-> FALSE],
    [name |-> <<"d", "e", "g">>, chars |-> <<"\\u00b0">>, legacy |-> TRUE],
    [name |-> <<"d", "e", "l", "t", "a">>, chars |-> <<"\\u03b4">>, legacy |-> FALSE],
    [name |-> <<"d", "e", "m", "p", "t", "y", "v">>, chars |-> <<"\\u29b1">>, legacy |-> FALSE],
    [name |-> <<"d", "f", "i", "s", "h", "t">>, chars |-> <<"\\u297f">>, legacy |-> FALSE],
    [name |-> <<"d", "f", "r">>, chars |-> <<"\\U0001d521">>, legacy |-> FALSE],
    [name |-> <<"d", "h", "a", "r", "l">>, chars |-> <<"\\u21c3">>, legacy |-> FALSE],
    [name |-> <<"d", "h", "a", "r", "r">>, chars |-> <<"\\u21c2">>, legacy |-> FALSE],
    [name |-> <<"d", "i", "a", "m">>, chars |-> <<"\\u22c4">>, legacy |-> FALSE],
    [name |-> <<"d", "i", "a", "m", "o", "n", "d">>, chars |-> <<"\\u22c4">>, legacy |-> FALSE],
    [name |-> <<"d", "i", "a", "m", "o", "n", "d", "s", "u", "i", "t">>, chars |-> <<"\\u2666">>, legacy |-> FALSE],
    [name |-> <<"d", "i", "a", "m", "s">>, chars |-> <<"\\u2666">>, legacy |-> FALSE],
    [name |-> <<"d", "i", "e">>, chars |-> <<"\\u00a8">>, legacy |-> FALSE],
    [name |-> <<"d", "i", "g", "a", "m", "m", "a">>, chars |-> <<"\\u03dd">>, legacy |-> FALSE],
    [name |-> <<"d", "i", "s", "i", "n">>, chars |-> <<"\\u22f2">>, legacy |-> FALSE],
    [name |-> <<"d", "i", "v">>, chars |-> <<"\\u00f7">>, legacy |-> FALSE],
    [name |-> <<"d", "i", "v", "i", "d", "e">>, chars |-> <<"\\u00f7">>, legacy |-> TRUE],
    [name |-> <<"d", "i", "v", "i", "d", "e", "o", "n", "t", "i", "m", "e", "s">>, chars |-> <<"\\u22c7">>, legacy |-> FALSE],
    [name |-> <<"d", "i", "v", "o", "n", "x">>, chars |-> <<"\\u22c7">>, legacy |-> FALSE],
    [name |-> <<"d", "j", "c", "y">>, chars |-> <<"\\u0452">>, legacy |-> FALSE],
    [name |-> <<"d", "l", "c", "o", "r", "n">>, chars |-> <<"\\u231e">>, legacy |-> FALSE],
    [name |-> <<"d", "l", "c", "r", "o", "p">>, chars |-> <<"\\u230d">>, legacy |-> FALSE],
    [name |-> <<"d", "o", "l", "l", "a", "r">>, chars |-> <<"$">>, legacy |-> FALSE],
    [name |-> <<"d", "o", "p", "f">>, chars |-> <<"\\U0001d555">>, legacy |-> FALSE],
    [name |-> <<"d", "o", "t">>, chars |-> <<"\\u02d9">>, legacy |-> FALSE],
    [name |-> <<"d", "o", "t", "e", "q">>, chars |-> <<"\\u2250">>, legacy |-> FALSE],
    [name |-> <<"d", "o", "t", "e", "q", "d", "o", "t">>, chars |-> <<"\\u2251">>, legacy |-> FALSE],
    [name |-> <<"d", "o", "t", "m", "i", "n", "u", "s">>, chars |-> <<"\\u2238">>, legacy |-> FALSE],
    [name |-> <<"d", "o", "t", "p", "l", "u", "s">>, chars |-> <<"\\u2214">>, legacy |-> FALSE],
    [name |-> <<"d", "o", "t", "s", "q", "u", "a", "r", "e">>, chars |-> <<"\\u22a1">>, legacy |-> FALSE],
    [name |-> <<"d", "o", "u", "b", "l", "e", "b", "a", "r", "w", "e", "d", "g", "e">>, chars |-> <<"\\u2306">>, legacy |-> FALSE],
    [name |-> <<"d", "o", "w", "n", "a", "r", "r", "o", "w">>, chars |-> <<"\\u2193">>, legacy |-> FALSE],
    [name |-> <<"d", "o", "w", "n", "d", "o", "w", "n", "a", "r", "r", "o", "w", "s">>, chars |-> <<"\\u21ca">>, legacy |-> FALSE],
    [name |-> <<"d", "o", "w", "n", "h", "a", "r", "p", "o", "o", "n", "l", "e", "f", "t">>, chars |-> <<"\\u21c3">>, legacy |-> FALSE],
    [name |-> <<"d", "o", "w", "n", "h", "a", "r", "p", "o", "o", "n", "r", "i", "g", "h", "t">>, chars |-> <<"\\u21c2">>, legacy |-> FALSE],
    [name |-> <<"d", "r", "b", "k", "a", "r", "o", "w">>, chars |-> <<"\\u2910">>, legacy |-> FALSE],
    [name |-> <<"d", "r", "c", "o", "r", "n">>, chars |-> <<"\\u231f">>, legacy |-> FALSE],
    [name |-> <<"d", "r", "c", "r", "o", "p">>, chars |-> <<"\\u230c">>, legacy |-> FALSE],
    [name |-> <<"d", "s", "c", "r">>, chars |-> <<"\\U0001d4b9">>, legacy |-> FALSE],
    [name |-> <<"d", "s", "c", "y">>, chars |-> <<"\\u0455">>, legacy |-> FALSE],
    [name |-> <<"d", "s", "o", "l">>, chars |-> <<"\\u29f6">>, legacy |-> FALSE],
    [name |-> <<"d", "s", "t", "r", "o", "k">>, chars |-> <<"\\u0111">>, legacy |-> FALSE],
    [name |-> <<"d", "t", "d", "o", "t">>, chars |-> <<"\\u22f1">>, legacy |-> FALSE],
    [name |-> <<"d", "t", "r", "i">>, chars |-> <<"\\u25bf">>, legacy |-> FALSE],
    [name |-> <<"d", "t", "r", "i", "f">>, chars |-> <<"\\u25be">>, legacy |-> FALSE],
    [name |-> <<"d", "u", "a", "r", "r">>, chars |-> <<"\\u21f5">>, legacy |-> FALSE],
    [name |-> <<"d", "u", "h", "a", "r">>, chars |-> <<"\\u296f">>, legacy |-> FALSE],
    [name |-> <<"d", "w", "a", "n", "g", "l", "e">>, chars |-> <<"\\u29a6">>, legacy |-> FALSE],
    [name |-> <<"d", "z", "c", "y">>, chars |-> <<"\\u045f">>, legacy |-> FALSE],
    [name |-> <<"d", "z", "i", "g", "r", "a", "r", "r">>, chars |-> <<"\\u27ff">>, legacy |-> FALSE],
    [name |-> <<"e", "D", "D", "o", "t">>, chars |-> <<"\\u2a77">>, legacy |-> FALSE],
    [name |-> <<"e", "D", "o", "t">>, chars |-> <<"\\u2251">>, legacy |-> FALSE],
    [name |-> <<"e", "a", "c", "u", "t", "e">>, chars |-> <<"\\u00e9">>, legacy |-> TRUE],
    [name |-> <<"e", "a", "s", "t", "e", "r">>, chars |-> <<"\\u2a6e">>, legacy |-> FALSE],
    [name |-> <<"e", "c", "a", "r", "o", "n">>, chars |-> <<"\\u011b">>, legacy |-> FALSE],
    [name |-> <<"e", "c", "i", "r">>, chars |-> <<"\\u2256">>, legacy |-> FALSE],
    [name |-> <<"e", "c", "i", "r", "c">>, chars |-> <<"\\u00ea">>, legacy |-> TRUE],
    [name |-> <<"e", "c", "o", "l", "o", "n">>, chars |-> <<"\\u2255">>, legacy |-> FALSE],
    [name |-> <<"e", "c", "y">>, chars |-> <<"\\u044d">>, legacy |-> FALSE],
    [name |-> <<"e", "d", "o", "t">>, chars |-> <<"\\u0117">>, legacy |-> FALSE],
    [name |-> <<"e", "e">>, chars |-> <<"\\u2147">>, legacy |-> FALSE],
    [name |-> <<"e", "f", "D", "o", "t">>, chars |-> <<"\\u2252">>, legacy |-> FALSE],
    [name |-> <<"e", "f", "r">>, chars |-> <<"\\U0001d522">>, legacy |-> FALSE],
    [name |-> <<"e", "g">>, chars |-> <<"\\u2a9a">>, legacy |-> FALSE],
    [name |-> <<"e", "g", "r", "a", "v", "e">>, chars |-> <<"\\u00e8">>, legacy |-> TRUE],
    [name |-> <<"e", "g", "s">>, chars |-> <<"\\u2a96">>, legacy |-> FALSE],
    [name |-> <<"e", "g", "s", "d", "o", "t">>, chars |-> <<"\\u2a98">>, legacy |-> FALSE],
    [name |-> <<"e", "l">>, chars |-> <<"\\u2a99">>, legacy |-> FALSE],
    [name |-> <<"e", "l", "i", "n", "t", "e", "r", "s">>, chars |-> <<"\\u23e7">>, legacy |-> FALSE],
    [name |-> <<"e", "l", "l">>, chars |-> <<"\\u2113">>, legacy |-> FALSE],
    [name |-> <<"e", "l", "s">>, chars |-> <<"\\u2a95">>, legacy |-> FALSE],
    [name |-> <<"e", "l", "s", "d", "o", "t">>, chars |-> <<"\\u2a97">>, legacy |-> FALSE],
    [name |-> <<"e", "m", "a", "c", "r">>, chars |-> <<"\\u0113">>, legacy |-> FALSE],
    [name |-> <<"e", "m", "p", "t", "y">>, chars |-> <<"\\u2205">>, legacy |-> FALSE],
    [name |-> <<"e", "m", "p", "t", "y", "s", "e", "t">>, chars |-> <<"\\u2205">>, legacy |-> FALSE],
    [name |-> <<"e", "m", "p", "t", "y", "v">>, chars |-> <<"\\u2205">>, legacy |-> FALSE],
    [name |-> <<"e", "m", "s", "p">>, chars |-> <<"\\u2003">>, legacy |-> FALSE],
    [name |-> <<"e", "m", "s", "p", "1", "3">>, chars |-> <<"\\u2004">>, legacy |-> FALSE],
    [name |-> <<"e", "m", "s", "p", "1", "4">>, chars |-> <<"\\u2005">>, legacy |-> FALSE],
    [name |-> <<"e", "n", "g">>, chars |-> <<"\\u014b">>, legacy |-> FALSE],
    [name |-> <<"e", "n", "s", "p">>, chars |-> <<"\\u2002">>, legacy |-> FALSE],
    [name |-> <<"e", "o", "g", "o", "n">>, chars |-> <<"\\u0119">>, legacy |-> FALSE],
    [name |-> <<"e", "o", "p", "f">>, chars |-> <<"\\U0001d556">>, legacy |-> FALSE],
    [name |-> <<"e", "p", "a", "r">>, chars |-> <<"\\u22d5">>, legacy |-> FALSE],
    [name |-> <<"e", "p", "a", "r", "s", "l">>, chars |-> <<"\\u29e3">>, legacy |-> FALSE],
    [name |-> <<"e", "p", "l", "u", "s">>, chars |-> <<"\\u2a71">>, legacy |-> FALSE],
    [name |-> <<"e", "p", "s", "i">>, chars |-> <<"\\u03b5">>, legacy |-> FALSE],
    [name |-> <<"e", "p", "s", "i", "l", "o", "n">>, chars |-> <<"\\u03b5">>, legacy |-> FALSE],
    [name |-> <<"e", "p", "s", "i", "v">>, chars |-> <<"\\u03f5">>, legacy |-> FALSE],
    [name |-> <<"e", "q", "c", "i", "r", "c">>, chars |-> <<"\\u2256">>, legacy |-> FALSE],
    [name |-> <<"e", "q", "c", "o", "l", "o", "n">>, chars |-> <<"\\u2255">>, legacy |-> FALSE],
    [name |-> <<"e", "q", "s", "i", "m">>, chars |-> <<"\\u2242">>, legacy |-> FALSE],
    [name |-> <<"e", "q", "s", "l", "a", "n", "t", "g", "t", "r">>, chars |-> <<"\\u2a96">>, legacy |-> FALSE],
    [name |-> <<"e", "q", "s", "l", "a", "n", "t", "l", "e", "s", "s">>, chars |-> <<"\\u2a95">>, legacy |-> FALSE],
    [name |-> <<"e", "q", "u", "a", "l", "s">>, chars |-> <<"=">>, legacy |-> FALSE],
    [name |-> <<"e", "q", "u", "e", "s", "t">>, chars |-> <<"\\u225f">>, legacy |-> FALSE],
    [name |-> <<"e", "q", "u", "i", "v">>, chars |-> <<"\\u2261">>, legacy |-> FALSE],
    [name |-> <<"e", "q", "u", "i", "v", "D", "D">>, chars |-> <<"\\u2a78">>, legacy |-> FALSE],
    [name |-> <<"e", "q", "v", "p", "a", "r", "s", "l">>, chars |-> <<"\\u29e5">>, legacy |-> FALSE],
    [name |-> <<"e", "r", "D", "o", "t">>, chars |-> <<"\\u2253">>, legacy |-> FALSE],
    [name |-> <<"e", "r", "a", "r", "r">>, chars |-> <<"\\u2971">>, legacy |-> FALSE],
    [name |-> <<"e", "s", "c", "r">>, chars |-> <<"\\u212f">>, legacy |-> FALSE],
    [name |-> <<"e", "s", "d", "o", "t">>, chars |-> <<"\\u2250">>, legacy |-> FALSE],
    [name |-> <<"e", "s", "i", "m">>, chars |-> <<"\\u2242">>, legacy |-> FALSE],
    [name |-> <<"e", "t", "a">>, chars |-> <<"\\u03b7">>, legacy |-> FALSE],
    [name |-> <<"e", "t", "h">>, chars |-> <<"\\u00f0">>, legacy |-> TRUE],
    [name |-> <<"e", "u", "m", "l">>, chars |-> <<"\\u00eb">>, legacy |-> TRUE],
    [name |-> <<"e", "u", "r", "o">>, chars |-> <<"\\u20ac">>, legacy |-> FALSE],
    [name |-> <<"e", "x", "c", "l">>, chars |-> <<"!">>, legacy |-> FALSE],
    [name |-> <<"e", "x", "i", "s", "t">>, chars |-> <<"\\u2203">>, legacy |-> FALSE],
    [name |-> <<"e", "x", "p", "e", "c", "t", "a", "t", "i", "o", "n">>, chars |-> <<"\\u2130">>, legacy |-> FALSE],
    [name |-> <<"e", "x", "p", "o", "n", "e", "n", "t", "i", "a", "l", "e">>, chars |-> <<"\\u2147">>, legacy |-> FALSE],
    [name |-> <<"f", "a", "l", "l", "i", "n", "g", "d", "o", "t", "s", "e", "q">>, chars |-> <<"\\u2252">>, legacy |-> FALSE],
    [name |-> <<"f", "c", "y">>, chars |-> <<"\\u0444">>, legacy |-> FALSE],
    [name |-> <<"f", "e", "m", "a", "l", "e">>, chars |-> <<"\\u2640">>, legacy |-> FALSE],
    [name |-> <<"f", "f", "i", "l", "i", "g">>, chars |-> <<"\\ufb03">>, legacy |-> FALSE],
    [name |-> <<"f", "f", "l", "i", "g">>, chars |-> <<"\\ufb00">>, legacy |-> FALSE],
    [name |-> <<"f", "f", "l", "l", "i", "g">>, chars |-> <<"\\ufb04">>, legacy |-> FALSE],
    [name |-> <<"f", "f", "r">>, chars |-> <<"\\U0001d523">>, legacy |-> FALSE],
    [name |-> <<"f", "i", "l", "i", "g">>, chars |-> <<"\\ufb01">>, legacy |-> FALSE],
    [name |-> <<"f", "j", "l", "i", "g">>, chars |-> <<"f", "j">>, legacy |-> FALSE],
    [name |-> <<"f", "l", "a", "t">>, chars |-> <<"\\u266d">>, legacy |-> FALSE],
    [name |-> <<"f", "l", "l", "i", "g">>, chars |-> <<"\\ufb02">>, legacy |-> FALSE],
    [name |-> <<"f", "l", "t", "n", "s">>, chars |-> <<"\\u25b1">>, legacy |-> FALSE],
    [name |-> <<"f", "n", "o", "f">>, chars |-> <<"\\u0192">>, legacy |-> FALSE],
    [name |-> <<"f", "o", "p", "f">>, chars |-> <<"\\U0001d557">>, legacy |-> FALSE],
    [name |-> <<"f", "o", "r", "a", "l", "l">>, chars |-> <<"\\u2200">>, legacy |-> FALSE],
    [name |-> <<"f", "o", "r", "k">>, chars |-> <<"\\u22d4">>, legacy |-> FALSE],
    [name |-> <<"f", "o", "r", "k", "v">>, chars |-> <<"\\u2ad9">>, legacy |-> FALSE],
    [name |-> <<"f", "p", "a", "r", "t", "i", "n", "t">>, chars |-> <<"\\u2a0d">>, legacy |-> FALSE],
    [name |-> <<"f", "r", "a", "c", "1", "2">>, chars |-> <<"\\u00bd">>, legacy |-> TRUE],
    [name |-> <<"f", "r", "a", "c", "1", "3">>, chars |-> <<"\\u2153">>, legacy |-> FALSE],
    [name |-> <<"f", "r", "a", "c", "1", "4">>, chars |-> <<"\\u00bc">>, legacy |-> TRUE],
    [name |-> <<"f", "r", "a", "c", "1", "5">>, chars |-> <<"\\u2155">>, legacy |-> FALSE],
    [name |-> <<"f", "r", "a", "c", "1", "6">>, chars |-> <<"\\u2159">>, legacy |-> FALSE],
    [name |-> <<"f", "r", "a", "c", "1", "8">>, chars |-> <<"\\u215b">>, legacy |-> FALSE],
    [name |-> <<"f", "r", "a", "c", "2", "3">>, chars |-> <<"\\u2154">>, legacy |-> FALSE],
    [name |-> <<"f", "r", "a", "c", "2", "5">>, chars |-> <<"\\u2156">>, legacy |-> FALSE],
    [name |-> <<"f", "r", "a", "c", "3", "4">>, chars |-> <<"\\u00be">>, legacy |-> TRUE],
    [name |-> <<"f", "r", "a", "c", "3", "5">>, chars |-> <<"\\u2157">>, legacy |-> FALSE],
    [name |-> <<"f", "r", "a", "c", "3", "8">>, chars |-> <<"\\u215c">>, legacy |-> FALSE],
    [name |-> <<"f", "r", "a", "c", "4", "5">>, chars |-> <<"\\u2158">>, legacy |-> FALSE],
    [name |-> <<"f", "r", "a", "c", "5", "6">>, chars |-> <<"\\u215a">>, legacy |-> FALSE],
    [name |-> <<"f", "r", "a", "c", "5", "8">>, chars |-> <<"\\u215d">>, legacy |-> FALSE],
    [name |-> <<"f", "r", "a", "c", "7", "8">>, chars |-> <<"\\u215e">>, legacy |-> FALSE],
    [name |-> <<"f", "r", "a", "s", "l">>, chars |-> <<"\\u2044">>, legacy |-> FALSE],
    [name |-> <<"f", "r", "o", "w", "n">>, chars |-> <<"\\u2322">>, legacy |-> FALSE],
    [name |-> <<"f", "s", "c", "r">>, chars |-> <<"\\U0001d4bb">>, legacy |-> FALSE],
    [name |-> <<"g", "E">>, chars |-> <<"\\u2267">>, legacy |-> FALSE],
    [name |-> <<"g", "E", "l">>, chars |-> <<"\\u2a8c">>, legacy |-> FALSE],
    [name |-> <<"g", "a", "c", "u", "t", "e">>, chars |-> <<"\\u01f5">>, legacy |-> FALSE],
    [name |-> <<"g", "a", "m", "m", "a">>, chars |-> <<"\\u03b3">>, legacy |-> FALSE],
    [name |-> <<"g", "a", "m", "m", "a", "d">>, chars |-> <<"\\u03dd">>, legacy |-> FALSE],
    [name |-> <<"g", "a", "p">>, chars |-> <<"\\u2a86">>, legacy |-> FALSE],
    [name |-> <<"g", "b", "r", "e", "v", "e">>, chars |-> <<"\\u011f">>, legacy |-> FALSE],
    [name |-> <<"g", "c", "i", "r", "c">>, chars |-> <<"\\u011d">>, legacy |-> FALSE],
    [name |-> <<"g", "c", "y">>, chars |-> <<"\\u0433">>, legacy |-> FALSE],
    [name |-> <<"g", "d", "o", "t">>, chars |-> <<"\\u0121">>, legacy |-> FALSE],
    [name |-> <<"g", "e">>, chars |-> <<"\\u2265">>, legacy |-> FALSE],
    [name |-> <<"g", "e", "l">>, chars |-> <<"\\u22db">>, legacy |-> FALSE],
    [name |-> <<"g", "e", "q">>, chars |-> <<"\\u2265">>, legacy |-> FALSE],
    [name |-> <<"g", "e", "q", "q">>, chars |-> <<"\\u2267">>, legacy |-> FALSE],
    [name |-> <<"g", "e", "q", "s", "l", "a", "n", "t">>, chars |-> <<"\\u2a7e">>, legacy |-> FALSE],
    [name |-> <<"g", "e", "s">>, chars |-> <<"\\u2a7e">>, legacy |-> FALSE],
    [name |-> <<"g", "e", "s", "c", "c">>, chars |-> <<"\\u2aa9">>, legacy |-> FALSE],
    [name |-> <<"g", "e", "s", "d", "o", "t">>, chars |-> <<"\\u2a80">>, legacy |-> FALSE],
    [name |-> <<"g", "e", "s", "d", "o", "t", "o">>, chars |-> <<"\\u2a82">>, legacy |-> FALSE],
    [name |-> <<"g", "e", "s", "d", "o", "t", "o", "l">>, chars |-> <<"\\u2a84">>, legacy |-> FALSE],
    [name |-> <<"g", "e", "s", "l">>, chars |-> <<"\\u22db", "\\ufe00">>, legacy |-> FALSE],
    [name |-> <<"g", "e", "s", "l", "e", "s">>, chars |-> <<"\\u2a94">>, legacy |-> FALSE],
    [name |-> <<"g", "f", "r">>, chars |-> <<"\\U0001d524">>, legacy |-> FALSE],
    [name |-> <<"g", "g">>, chars |-> <<"\\u226b">>, legacy |-> FALSE],
    [name |-> <<"g", "g", "g">>, chars |-> <<"\\u22d9">>, legacy |-> FALSE],
    [name |-> <<"g", "i", "m", "e", "l">>, chars |-> <<"\\u2137">>, legacy |-> FALSE],
    [name |-> <<"g", "j", "c", "y">>, chars |-> <<"\\u0453">>, legacy |-> FALSE],
    [name |-> <<"g", "l">>, chars |-> <<"\\u2277">>, legacy |-> FALSE],
    [name |-> <<"g", "l", "E">>, chars |-> <<"\\u2a92">>, legacy |-> FALSE],
    [name |-> <<"g", "l", "a">>, chars |-> <<"\\u2aa5">>, legacy |-> FALSE],
    [name |-> <<"g", "l", "j">>, chars |-> <<"\\u2aa4">>, legacy |-> FALSE],
    [name |-> <<"g", "n", "E">>, chars |-> <<"\\u2269">>, legacy |-> FALSE],
    [name |-> <<"g", "n", "a", "p">>, chars |-> <<"\\u2a8a">>, legacy |-> FALSE],
    [name |-> <<"g", "n", "a", "p", "p", "r", "o", "x">>, chars |-> <<"\\u2a8a">>, legacy |-> FALSE],
    [name |-> <<"g", "n", "e">>, chars |-> <<"\\u2a88">>, legacy |-> FALSE],
    [name |-> <<"g", "n", "e", "q">>, chars |-> <<"\\u2a88">>, legacy |-> FALSE],
    [name |-> <<"g", "n", "e", "q", "q">>, chars |-> <<"\\u2269">>, legacy |-> FALSE],
    [name |-> <<"g", "n", "s", "i", "m">>, chars |-> <<"\\u22e7">>, legacy |-> FALSE],
    [name |-> <<"g", "o", "p", "f">>, chars |-> <<"\\U0001d558">>, legacy |-> FALSE],
    [name |-> <<"g", "r", "a", "v", "e">>, chars |-> <<"\\u0060">>, legacy |-> FALSE],
    [name |-> <<"g", "s", "c", "r">>, chars |-> <<"\\u210a">>, legacy |-> FALSE],
    [name |-> <<"g", "s", "i", "m">>, chars |-> <<"\\u2273">>, legacy |-> FALSE],
    [name |-> <<"g", "s", "i", "m", "e">>, chars |-> <<"\\u2a8e">>, legacy |-> FALSE],
    [name |-> <<"g", "s", "i", "m", "l">>, chars |-> <<"\\u2a90">>, legacy |-> FALSE],
    [name |-> <<"g", "t">>, chars |-> <<">">>, legacy |-> TRUE],
    [name |-> <<"g", "t", "c", "c">>, chars |-> <<"\\u2aa7">>, legacy |-> FALSE],
    [name |-> <<"g", "t", "c", "i", "r">>, chars |-> <<"\\u2a7a">>, legacy |-> FALSE],
    [name |-> <<"g", "t", "d", "o", "t">>, chars |-> <<"\\u22d7">>, legacy |-> FALSE],
    [name |-> <<"g", "t", "l", "P", "a", "r">>, chars |-> <<"\\u2995">>, legacy |-> FALSE],
    [name |-> <<"g", "t", "q", "u", "e", "s", "t">>, chars |-> <<"\\u2a7c">>, legacy |-> FALSE],
    [name |-> <<"g", "t", "r", "a", "p", "p", "r", "o", "x">>, chars |-> <<"\\u2a86">>, legacy |-> FALSE],
    [name |-> <<"g", "t", "r", "a", "r", "r">>, chars |-> <<"\\u2978">>, legacy |-> FALSE],
    [name |-> <<"g", "t", "r", "d", "o", "t">>, chars |-> <<"\\u22d7">>, legacy |-> FALSE],
    [name |-> <<"g", "t", "r", "e", "q", "l", "e", "s", "s">>, chars |-> <<"\\u22db">>, legacy |-> FALSE],
    [name |-> <<"g", "t", "r", "e", "q", "q", "l", "e", "s", "s">>, chars |-> <<"\\u2a8c">>, legacy |-> FALSE],
    [name |-> <<"g", "t", "r", "l", "e", "s", "s">>, chars |-> <<"\\u2277">>, legacy |-> FALSE],
    [name |-> <<"g", "t", "r", "s", "i", "m">>, chars |-> <<"\\u2273">>, legacy |-> FALSE],
    [name |-> <<"g", "v", "e", "r", "t", "n", "e", "q", "q">>, chars |-> <<"\\u2269", "\\ufe00">>, legacy |-> FALSE],
    [name |-> <<"g", "v", "n", "E">>, chars |-> <<"\\u2269", "\\ufe00">>, legacy |-> FALSE],
    [name |-> <<"h", "A", "r", "r">>, chars |-> <<"\\u21d4">>, legacy |-> FALSE],
    [name |-> <<"h", "a", "i", "r", "s", "p">>, chars |-> <<"\\u200a">>, legacy |-> FALSE],
    [name |-> <<"h", "a", "l", "f">>, chars |-> <<"\\u00bd">>, legacy |-> FALSE],
    [name |-> <<"h", "a", "m", "i", "l", "t">>, chars |-> <<"\\u210b">>, legacy |-> FALSE],
    [name |-> <<"h", "a", "r", "d", "c", "y">>, chars |-> <<"\\u044a">>, legacy |-> FALSE],
    [name |-> <<"h", "a", "r", "r">>, chars |-> <<"\\u2194">>, legacy |-> FALSE],
    [name |-> <<"h", "a", "r", "r", "c", "i", "r">>, chars |-> <<"\\u2948">>, legacy |-> FALSE],
    [name |-> <<"h", "a", "r", "r", "w">>, chars |-> <<"\\u21ad">>, legacy |-> FALSE],
    [name |-> <<"h", "b", "a", "r">>, chars |-> <<"\\u210f">>, legacy |-> FALSE],
    [name |-> <<"h", "c", "i", "r", "c">>, chars |-> <<"\\u0125">>, legacy |-> FALSE],
    [name |-> <<"h", "e", "a", "r", "t", "s">>, chars |-> <<"\\u2665">>, legacy |-> FALSE],
    [name |-> <<"h", "e", "a", "r", "t", "s", "u", "i", "t">>, chars |-> <<"\\u2665">>, legacy |-> FALSE],
    [name |-> <<"h", "e", "l", "l", "i", "p">>, chars |-> <<"\\u2026">>, legacy |-> FALSE],
    [name |-> <<"h", "e", "r", "c", "o", "n">>, chars |-> <<"\\u22b9">>, legacy |-> FALSE],
    [name |-> <<"h", "f", "r">>, chars |-> <<"\\U0001d525">>, legacy |-> FALSE],
    [name |-> <<"h", "k", "s", "e", "a", "r", "o", "w">>, chars |-> <<"\\u2925">>, legacy |-> FALSE],
    [name |-> <<"h", "k", "s", "w", "a", "r", "o", "w">>, chars |-> <<"\\u2926">>, legacy |-> FALSE],
    [name |-> <<"h", "o", "a", "r", "r">>, chars |-> <<"\\u21ff">>, legacy |-> FALSE],
    [name |-> <<"h", "o", "m", "t", "h", "t">>, chars |-> <<"\\u223b">>, legacy |-> FALSE],
    [name |-> <<"h", "o", "o", "k", "l", "e", "f", "t", "a", "r", "r", "o", "w">>, chars |-> <<"\\u21a9">>, legacy |-> FALSE],
    [name |-> <<"h", "o", "o", "k", "r", "i", "g", "h", "t", "a", "r", "r", "o", "w">>, chars |-> <<"\\u21aa">>, legacy |-> FALSE],
    [name |-> <<"h", "o", "p", "f">>, chars |-> <<"\\U0001d559">>, legacy |-> FALSE],
    [name |-> <<"h", "o", "r", "b", "a", "r">>, chars |-> <<"\\u2015">>, legacy |-> FALSE],
    [name |-> <<"h", "s", "c", "r">>, chars |-> <<"\\U0001d4bd">>, legacy |-> FALSE],
    [name |-> <<"h", "s", "l", "a", "s", "h">>, chars |-> <<"\\u210f">>, legacy |-> FALSE],
    [name |-> <<"h", "s", "t", "r", "o", "k">>, chars |-> <<"\\u0127">>, legacy |-> FALSE],
    [name |-> <<"h", "y", "b", "u", "l", "l">>, chars |-> <<"\\u2043">>, legacy |-> FALSE],
    [name |-> <<"h", "y", "p", "h", "e", "n">>, chars |-> <<"\\u2010">>, legacy |-> FALSE],
    [name |-> <<"i", "a", "c", "u", "t", "e">>, chars |-> <<"\\u00ed">>, legacy |-> TRUE],
    [name |-> <<"i", "c">>, chars |-> <<"\\u2063">>, legacy |-> FALSE],
    [name |-> <<"i", "c", "i", "r", "c">>, chars |-> <<"\\u00ee">>, legacy |-> TRUE],
    [name |-> <<"i", "c", "y">>, chars |-> <<"\\u0438">>, legacy |-> FALSE],
    [name |-> <<"i", "e", "c", "y">>, chars |-> <<"\\u0435">>, legacy |-> FALSE],
    [name |-> <<"i", "e", "x", "c", "l">>, chars |-> <<"\\u00a1">>, legacy |-> TRUE],
    [name |-> <<"i", "f", "f">>, chars |-> <<"\\u21d4">>, legacy |-> FALSE],
    [name |-> <<"i", "f", "r">>, chars |-> <<"\\U0001d526">>, legacy |-> FALSE],
    [name |-> <<"i", "g", "r", "a", "v", "e">>, chars |-> <<"\\u00ec">>, legacy |-> TRUE],
    [name |-> <<"i", "i">>, chars |-> <<"\\u2148">>, legacy |-> FALSE],
    [name |-> <<"i", "i", "i", "i", "n", "t">>, chars |-> <<"\\u2a0c">>, legacy |-> FALSE],
    [name |-> <<"i", "i", "i", "n", "t">>, chars |-> <<"\\u222d">>, legacy |-> FALSE],
    [name |-> <<"i", "i", "n", "f", "i", "n">>, chars |-> <<"\\u29dc">>, legacy |-> FALSE],
    [name |-> <<"i", "i", "o", "t", "a">>, chars |-> <<"\\u2129">>, legacy |-> FALSE],
    [name |-> <<"i", "j", "l", "i", "g">>, chars |-> <<"\\u0133">>, legacy |-> FALSE],
    [name |-> <<"i", "m", "a", "c", "r">>, chars |-> <<"\\u012b">>, legacy |-> FALSE],
    [name |-> <<"i", "m", "a", "g", "e">>, chars |-> <<"\\u2111">>, legacy |-> FALSE],
    [name |-> <<"i", "m", "a", "g", "l", "i", "n", "e">>, chars |-> <<"\\u2110">>, legacy |-> FALSE],
    [name |-> <<"i", "m", "a", "g", "p", "a", "r", "t">>, chars |-> <<"\\u2111">>, legacy |-> FALSE],
    [name |-> <<"i", "m", "a", "t", "h">>, chars |-> <<"\\u0131">>, legacy |-> FALSE],
    [name |-> <<"i", "m", "o", "f">>, chars |-> <<"\\u22b7">>, legacy |-> FALSE],
    [name |-> <<"i", "m", "p", "e", "d">>, chars |-> <<"\\u01b5">>, legacy |-> FALSE],
    [name |-> <<"i", "n">>, chars |-> <<"\\u2208">>, legacy |-> FALSE],
    [name |-> <<"i", "n", "c", "a", "r", "e">>, chars |-> <<"\\u2105">>, legacy |-> FALSE],
    [name |-> <<"i", "n", "f", "i", "n">>, chars |-> <<"\\u221e">>, legacy |-> FALSE],
    [name |-> <<"i", "n", "f", "i", "n", "t", "i", "e">>, chars |-> <<"\\u29dd">>, legacy |-> FALSE],
    [name |-> <<"i", "n", "o", "d", "o", "t">>, chars |-> <<"\\u0131">>, legacy |-> FALSE],
    [name |-> <<"i", "n", "t">>, chars |-> <<"\\u222b">>, legacy |-> FALSE],
    [name |-> <<"i", "n", "t", "c", "a", "l">>, chars |-> <<"\\u22ba">>, legacy |-> FALSE],
    [name |-> <<"i", "n", "t", "e", "g", "e", "r", "s">>, chars |-> <<"\\u2124">>, legacy |-> FALSE],
    [name |-> <<"i", "n", "t", "e", "r", "c", "a", "l">>, chars |-> <<"\\u22ba">>, legacy |-> FALSE],
    [name |-> <<"i", "n", "t", "l", "a", "r", "h", "k">>, chars |-> <<"\\u2a17">>, legacy |-> FALSE],
    [name |-> <<"i", "n", "t", "p", "r", "o", "d">>, chars |-> <<"\\u2a3c">>, legacy |-> FALSE],
    [name |-> <<"i", "o", "c", "y">>, chars |-> <<"\\u0451">>, legacy |-> FALSE],
    [name |-> <<"i", "o", "g", "o", "n">>, chars |-> <<"\\u012f">>, legacy |-> FALSE],
    [name |-> <<"i", "o", "p", "f">>, chars |-> <<"\\U0001d55a">>, legacy |-> FALSE],
    [name |-> <<"i", "o", "t", "a">>, chars |-> <<"\\u03b9">>, legacy |-> FALSE],
    [name |-> <<"i", "p", "r", "o", "d">>, chars |-> <<"\\u2a3c">>, legacy |-> FALSE],
    [name |-> <<"i", "q", "u", "e", "s", "t">>, chars |-> <<"\\u00bf">>, legacy |-> TRUE],
    [name |-> <<"i", "s", "c", "r">>, chars |-> <<"\\U0001d4be">>, legacy |-> FALSE],
    [name |-> <<"i", "s", "i", "n">>, chars |-> <<"\\u2208">>, legacy |-> FALSE],
    [name |-> <<"i", "s", "i", "n", "E">>, chars |-> <<"\\u22f9">>, legacy |-> FALSE],
    [name |-> <<"i", "s", "i", "n", "d", "o", "t">>, chars |-> <<"\\u22f5">>, legacy |-> FALSE],
    [name |-> <<"i", "s", "i", "n", "s">>, chars |-> <<"\\u22f4">>, legacy |-> FALSE],
    [name |-> <<"i", "s", "i", "n", "s", "v">>, chars |-> <<"\\u22f3">>, legacy |-> FALSE],
    [name |-> <<"i", "s", "i", "n", "v">>, chars |-> <<"\\u2208">>, legacy |-> FALSE],
    [name |-> <<"i", "t">>, chars |-> <<"\\u2062">>, legacy |-> FALSE],
    [name |-> <<"i", "t", "i", "l", "d", "e">>, chars |-> <<"\\u0129">>, legacy |-> FALSE],
    [name |-> <<"i", "u", "k", "c", "y">>, chars |-> <<"\\u0456">>, legacy |-> FALSE],
    [name |-> <<"i", "u", "m", "l">>, chars |-> <<"\\u00ef">>, legacy |-> TRUE],
    [name |-> <<"j", "c", "i", "r", "c">>, chars |-> <<"\\u0135">>, legacy |-> FALSE],
    [name |-> <<"j", "c", "y">>, chars |-> <<"\\u0439">>, legacy |-> FALSE],
    [name |-> <<"j", "f", "r">>, chars |-> <<"\\U0001d527">>, legacy |-> FALSE],
    [name |-> <<"j", "m", "a", "t", "h">>, chars |-> <<"\\u0237">>, legacy |-> FALSE],
    [name |-> <<"j", "o", "p", "f">>, chars |-> <<"\\U0001d55b">>, legacy |-> FALSE],
    [name |-> <<"j", "s", "c", "r">>, chars |-> <<"\\U0001d4bf">>, legacy |-> FALSE],
    [name |-> <<"j", "s", "e", "r", "c", "y">>, chars |-> <<"\\u0458">>, legacy |-> FALSE],
    [name |-> <<"j", "u", "k", "c", "y">>, chars |-> <<"\\u0454">>, legacy |-> FALSE],
    [name |-> <<"k", "a", "p", "p", "a">>, chars |-> <<"\\u03ba">>, legacy |-> FALSE],
    [name |-> <<"k", "a", "p", "p", "a", "v">>, chars |-> <<"\\u03f0">>, legacy |-> FALSE],
    [name |-> <<"k", "c", "e", "d", "i", "l">>, chars |-> <<"\\u0137">>, legacy |-> FALSE],
    [name |-> <<"k", "c", "y">>, chars |-> <<"\\u043a">>, legacy |-> FALSE],
    [name |-> <<"k", "f", "r">>, chars |-> <<"\\U0001d528">>, legacy |-> FALSE],
    [name |-> <<"k", "g", "r", "e", "e", "n">>, chars |-> <<"\\u0138">>, legacy |-> FALSE],
    [name |-> <<"k", "h", "c", "y">>, chars |-> <<"\\u0445">>, legacy |-> FALSE],
    [name |-> <<"k", "j", "c", "y">>, chars |-> <<"\\u045c">>, legacy |-> FALSE],
    [name |-> <<"k", "o", "p", "f">>, chars |-> <<"\\U0001d55c">>, legacy |-> FALSE],
    [name |-> <<"k", "s", "c", "r">>, chars |-> <<"\\U0001d4c0">>, legacy |-> FALSE],
    [name |-> <<"l", "A", "a", "r", "r">>, chars |-> <<"\\u21da">>, legacy |-> FALSE],
    [name |-> <<"l", "A", "r", "r">>, chars |-> <<"\\u21d0">>, legacy |-> FALSE],
    [name |-> <<"l", "A", "t", "a", "i", "l">>, chars |-> <<"\\u291b">>, legacy |-> FALSE],
    [name |-> <<"l", "B", "a", "r", "r">>, chars |-> <<"\\u290e">>, legacy |-> FALSE],
    [name |-> <<"l", "E">>, chars |-> <<"\\u2266">>, legacy |-> FALSE],
    [name |-> <<"l", "E", "g">>, chars |-> <<"\\u2a8b">>, legacy |-> FALSE],
    [name |-> <<"l", "H", "a", "r">>, chars |-> <<"\\u2962">>, legacy |-> FALSE],
    [name |-> <<"l", "a", "c", "u", "t", "e">>, chars |-> <<"\\u013a">>, legacy |-> FALSE],
    [name |-> <<"l", "a", "e", "m", "p", "t", "y", "v">>, chars |-> <<"\\u29b4">>, legacy |-> FALSE],
    [name |-> <<"l", "a", "g", "r", "a", "n">>, chars |-> <<"\\u2112">>, legacy |-> FALSE],
    [name |-> <<"l", "a", "m", "b", "d", "a">>, chars |-> <<"\\u03bb">>, legacy |-> FALSE],
    [name |-> <<"l", "a", "n", "g">>, chars |-> <<"\\u27e8">>, legacy |-> FALSE],
    [name |-> <<"l", "a", "n", "g", "d">>, chars |-> <<"\\u2991">>, legacy |-> FALSE],
    [name |-> <<"l", "a", "n", "g", "l", "e">>, chars |-> <<"\\u27e8">>, legacy |-> FALSE],
    [name |-> <<"l", "a", "p">>, chars |-> <<"\\u2a85">>, legacy |-> FALSE],
    [name |-> <<"l", "a", "q", "u", "o">>, chars |-> <<"\\u00ab">>, legacy |-> TRUE],
    [name |-> <<"l", "a", "r", "r">>, chars |-> <<"\\u2190">>, legacy |-> FALSE],
    [name |-> <<"l", "a", "r", "r", "b">>, chars |-> <<"\\u21e4">>, legacy |-> FALSE],
    [name |-> <<"l", "a", "r", "r", "b", "f", "s">>, chars |-> <<"\\u291f">>, legacy |-> FALSE],
    [name |-> <<"l", "a", "r", "r", "f", "s">>, chars |-> <<"\\u291d">>, legacy |-> FALSE],
    [name |-> <<"l", "a", "r", "r", "h", "k">>, chars |-> <<"\\u21a9">>, legacy |-> FALSE],
    [name |-> <<"l", "a", "r", "r", "l", "p">>, chars |-> <<"\\u21ab">>, legacy |-> FALSE],
    [name |-> <<"l", "a", "r", "r", "p", "l">>, chars |-> <<"\\u2939">>, legacy |-> FALSE],
    [name |-> <<"l", "a", "r", "r", "s", "i", "m">>, chars |-> <<"\\u2973">>, legacy |-> FALSE],
    [name |-> <<"l", "a", "r", "r", "t", "l">>, chars |-> <<"\\u21a2">>, legacy |-> FALSE],
    [name |-> <<"l", "a", "t">>, chars |-> <<"\\u2aab">>, legacy |-> FALSE],
    [name |-> <<"l", "a", "t", "a", "i", "l">>, chars |-> <<"\\u2919">>, legacy |-> FALSE],
    [name |-> <<"l", "a", "t", "e">>, chars |-> <<"\\u2aad">>, legacy |-> FALSE],
    [name |-> <<"l", "a", "t", "e", "s">>, chars |-> <<"\\u2aad", "\\ufe00">>, legacy |-> FALSE],
    [name |-> <<"l", "b", "a", "r", "r">>, chars |-> <<"\\u290c">>, legacy |-> FALSE],
    [name |-> <<"l", "b", "b", "r", "k">>, chars |-> <<"\\u2772">>, legacy |-> FALSE],
    [name |-> <<"l", "b", "r", "a", "c", "e">>, chars |-> <<"{">>, legacy |-> FALSE],
    [name |-> <<"l", "b", "r", "a", "c", "k">>, chars |-> <<"[">>, legacy |-> FALSE],
    [name |-> <<"l", "b", "r", "k", "e">>, chars |-> <<"\\u298b">>, legacy |-> FALSE],
    [name |-> <<"l", "b", "r", "k", "s", "l", "d">>, chars |-> <<"\\u298f">>, legacy |-> FALSE],
    [name |-> <<"l", "b", "r", "k", "s", "l", "u">>, chars |-> <<"\\u298d">>, legacy |-> FALSE],
    [name |-> <<"l", "c", "a", "r", "o", "n">>, chars |-> <<"\\u013e">>, legacy |-> FALSE],
    [name |-> <<"l", "c", "e", "d", "i", "l">>, chars |-> <<"\\u013c">>, legacy |-> FALSE],
    [name |-> <<"l", "c", "e", "i", "l">>, chars |-> <<"\\u2308">>, legacy |-> FALSE],
    [name |-> <<"l", "c", "u", "b">>, chars |-> <<"{">>, legacy |-> FALSE],
    [name |-> <<"l", "c", "y">>, chars |-> <<"\\u043b">>, legacy |-> FALSE],
    [name |-> <<"l", "d", "c", "a">>, chars |-> <<"\\u2936">>, legacy |-> FALSE],
    [name |-> <<"l", "d", "q", "u", "o">>, chars |-> <<"\\u201c">>, legacy |-> FALSE],
    [name |-> <<"l", "d", "q", "u", "o", "r">>, chars |-> <<"\\u201e">>, legacy |-> FALSE],
    [name |-> <<"l", "d", "r", "d", "h", "a", "r">>, chars |-> <<"\\u2967">>, legacy |-> FALSE],
    [name |-> <<"l", "d", "r", "u", "s", "h", "a", "r">>, chars |-> <<"\\u294b">>, legacy |-> FALSE],
    [name |-> <<"l", "d", "s", "h">>, chars |-> <<"\\u21b2">>, legacy |-> FALSE],
    [name |-> <<"l", "e">>, chars |-> <<"\\u2264">>, legacy |-> FALSE],
    [name |-> <<"l", "e", "f", "t", "a", "r", "r", "o", "w">>, chars |-> <<"\\u2190">>, legacy |-> FALSE],
    [name |-> <<"l", "e", "f", "t", "a", "r", "r", "o", "w", "t", "a", "i", "l">>, chars |-> <<"\\u21a2">>, legacy |-> FALSE],
    [name |-> <<"l", "e", "f", "t", "h", "a", "r", "p", "o", "o", "n", "d", "o", "w", "n">>, chars |-> <<"\\u21bd">>, legacy |-> FALSE],
    [name |-> <<"l", "e", "f", "t", "h", "a", "r", "p", "o", "o", "n", "u", "p">>, chars |-> <<"\\u21bc">>, legacy |-> FALSE],
    [name |-> <<"l", "e", "f", "t", "l", "e", "f", "t", "a", "r", "r", "o", "w", "s">>, chars |-> <<"\\u21c7">>, legacy |-> FALSE],
    [name |-> <<"l", "e", "f", "t", "r", "i", "g", "h", "t", "a", "r", "r", "o", "w">>, chars |-> <<"\\u2194">>, legacy |-> FALSE],
    [name |-> <<"l", "e", "f", "t", "r", "i", "g", "h", "t", "a", "r", "r", "o", "w", "s">>, chars |-> <<"\\u21c6">>, legacy |-> FALSE],
    [name |-> <<"l", "e", "f", "t", "r", "i", "g", "h", "t", "h", "a", "r", "p", "o", "o", "n", "s">>, chars |-> <<"\\u21cb">>, legacy |-> FALSE],
    [name |-> <<"l", "e", "f", "t", "r", "i", "g", "h", "t", "s", "q", "u", "i", "g", "a", "r", "r", "o", "w">>, chars |-> <<"\\u21ad">>, legacy |-> FALSE],
    [name |-> <<"l", "e", "f", "t", "t", "h", "r", "e", "e", "t", "i", "m", "e", "s">>, chars |-> <<"\\u22cb">>, legacy |-> FALSE],
    [name |-> <<"l", "e", "g">>, chars |-> <<"\\u22da">>, legacy |-> FALSE],
    [name |-> <<"l", "e", "q">>, chars |-> <<"\\u2264">>, legacy |-> FALSE],
    [name |-> <<"l", "e", "q", "q">>, chars |-> <<"\\u2266">>, legacy |-> FALSE],
    [name |-> <<"l", "e", "q", "s", "l", "a", "n", "t">>, chars |-> <<"\\u2a7d">>, legacy |-> FALSE],
    [name |-> <<"l", "e", "s">>, chars |-> <<"\\u2a7d">>, legacy |-> FALSE],
    [name |-> <<"l", "e", "s", "c", "c">>, chars |-> <<"\\u2aa8">>, legacy |-> FALSE],
    [name |-> <<"l", "e", "s", "d", "o", "t">>, chars |-> <<"\\u2a7f">>, legacy |-> FALSE],
    [name |-> <<"l", "e", "s", "d", "o", "t", "o">>, chars |-> <<"\\u2a81">>, legacy |-> FALSE],
    [name |-> <<"l", "e", "s", "d", "o", "t", "o", "r">>, chars |-> <<"\\u2a83">>, legacy |-> FALSE],
    [name |-> <<"l", "e", "s", "g">>, chars |-> <<"\\u22da", "\\ufe00">>, legacy |-> FALSE],
    [name |-> <<"l", "e", "s", "g", "e", "s">>, chars |-> <<"\\u2a93">>, legacy |-> FALSE],
    [name |-> <<"l", "e", "s", "s", "a", "p", "p", "r", "o", "x">>, chars |-> <<"\\u2a85">>, legacy |-> FALSE],
    [name |-> <<"l", "e", "s", "s", "d", "o", "t">>, chars |-> <<"\\u22d6">>, legacy |-> FALSE],
    [name |-> <<"l", "e", "s", "s", "e", "q", "g", "t", "r">>, chars |-> <<"\\u22da">>, legacy |-> FALSE],
    [name |-> <<"l", "e", "s", "s", "e", "q", "q", "g", "t", "r">>, chars |-> <<"\\u2a8b">>, legacy |-> FALSE],
    [name |-> <<"l", "e", "s", "s", "g", "t", "r">>, chars |-> <<"\\u2276">>, legacy |-> FALSE],
    [name |-> <<"l", "e", "s", "s", "s", "i", "m">>, chars |-> <<"\\u2272">>, legacy |-> FALSE],
    [name |-> <<"l", "f", "i", "s", "h", "t">>, chars |-> <<"\\u297c">>, legacy |-> FALSE],
    [name |-> <<"l", "f", "l", "o", "o", "r">>, chars |-> <<"\\u230a">>, legacy |-> FALSE],
    [name |-> <<"l", "f", "r">>, chars |-> <<"\\U0001d529">>, legacy |-> FALSE],
    [name |-> <<"l", "g">>, chars |-> <<"\\u2276">>, legacy |-> FALSE],
    [name |-> <<"l", "g", "E">>, chars |-> <<"\\u2a91">>, legacy |-> FALSE],
    [name |-> <<"l", "h", "a", "r", "d">>, chars |-> <<"\\u21bd">>, legacy |-> FALSE],
    [name |-> <<"l", "h", "a", "r", "u">>, chars |-> <<"\\u21bc">>, legacy |-> FALSE],
    [name |-> <<"l", "h", "a", "r", "u", "l">>, chars |-> <<"\\u296a">>, legacy |-> FALSE],
    [name |-> <<"l", "h", "b", "l", "k">>, chars |-> <<"\\u2584">>, legacy |-> FALSE],
    [name |-> <<"l", "j", "c", "y">>, chars |-> <<"\\u0459">>, legacy |-> FALSE],
    [name |-> <<"l", "l">>, chars |-> <<"\\u226a">>, legacy |-> FALSE],
    [name |-> <<"l", "l", "a", "r", "r">>, chars |-> <<"\\u21c7">>, legacy |-> FALSE],
    [name |-> <<"l", "l", "c", "o", "r", "n", "e", "r">>, chars |-> <<"\\u231e">>, legacy |-> FALSE],
    [name |-> <<"l", "l", "h", "a", "r", "d">>, chars |-> <<"\\u296b">>, legacy |-> FALSE],
    [name |-> <<"l", "l", "t", "r", "i">>, chars |-> <<"\\u25fa">>, legacy |-> FALSE],
    [name |-> <<"l", "m", "i", "d", "o", "t">>, chars |-> <<"\\u0140">>, legacy |-> FALSE],
    [name |-> <<"l", "m", "o", "u", "s", "t">>, chars |-> <<"\\u23b0">>, legacy |-> FALSE],
    [name |-> <<"l", "m", "o", "u", "s", "t", "a", "c", "h", "e">>, chars |-> <<"\\u23b0">>, legacy |-> FALSE],
    [name |-> <<"l", "n", "E">>, chars |-> <<"\\u2268">>, legacy |-> FALSE],
    [name |-> <<"l", "n", "a", "p">>, chars |-> <<"\\u2a89">>, legacy |-> FALSE],
    [name |-> <<"l", "n", "a", "p", "p", "r", "o", "x">>, chars |-> <<"\\u2a89">>, legacy |-> FALSE],
    [name |-> <<"l", "n", "e">>, chars |-> <<"\\u2a87">>, legacy |-> FALSE],
    [name |-> <<"l", "n", "e", "q">>, chars |-> <<"\\u2a87">>, legacy |-> FALSE],
    [name |-> <<"l", "n", "e", "q", "q">>, chars |-> <<"\\u2268">>, legacy |-> FALSE],
    [name |-> <<"l", "n", "s", "i", "m">>, chars |-> <<"\\u22e6">>, legacy |-> FALSE],
    [name |-> <<"l", "o", "a", "n", "g">>, chars |-> <<"\\u27ec">>, legacy |-> FALSE],
    [name |-> <<"l", "o", "a", "r", "r">>, chars |-> <<"\\u21fd">>, legacy |-> FALSE],
    [name |-> <<"l", "o", "b", "r", "k">>, chars |-> <<"\\u27e6">>, legacy |-> FALSE],
    [name |-> <<"l", "o", "n", "g", "l", "e", "f", "t", "a", "r", "r", "o", "w">>, chars |-> <<"\\u27f5">>, legacy |-> FALSE],
    [name |-> <<"l", "o", "n", "g", "l", "e", "f", "t", "r", "i", "g", "h", "t", "a", "r", "r", "o", "w">>, chars |-> <<"\\u27f7">>, legacy |-> FALSE],
    [name |-> <<"l", "o", "n", "g", "m", "a", "p", "s", "t", "o">>, chars |-> <<"\\u27fc">>, legacy |-> FALSE],
    [name |-> <<"l", "o", "n", "g", "r", "i", "g", "h", "t", "a", "r", "r", "o", "w">>, chars |-> <<"\\u27f6">>, legacy |-> FALSE],
    [name |-> <<"l", "o", "o", "p", "a", "r", "r", "o", "w", "l", "e", "f", "t">>, chars |-> <<"\\u21ab">>, legacy |-> FALSE],
    [name |-> <<"l", "o", "o", "p", "a", "r", "r", "o", "w", "r", "i", "g", "h", "t">>, chars |-> <<"\\u21ac">>, legacy |-> FALSE],
    [name |-> <<"l", "o", "p", "a", "r">>, chars |-> <<"\\u2985">>, legacy |-> FALSE],
    [name |-> <<"l", "o", "p", "f">>, chars |-> <<"\\U0001d55d">>, legacy |-> FALSE],
    [name |-> <<"l", "o", "p", "l", "u", "s">>, chars |-> <<"\\u2a2d">>, legacy |-> FALSE],
    [name |-> <<"l", "o", "t", "i", "m", "e", "s">>, chars |-> <<"\\u2a34">>, legacy |-> FALSE],
    [name |-> <<"l", "o", "w", "a", "s", "t">>, chars |-> <<"\\u2217">>, legacy |-> FALSE],
    [name |-> <<"l", "o", "w", "b", "a", "r">>, chars |-> <<"_">>, legacy |-> FALSE],
    [name |-> <<"l", "o", "z">>, chars |-> <<"\\u25ca">>, legacy |-> FALSE],
    [name |-> <<"l", "o", "z", "e", "n", "g", "e">>, chars |-> <<"\\u25ca">>, legacy |-> FALSE],
    [name |-> <<"l", "o", "z", "f">>, chars |-> <<"\\u29eb">>, legacy |-> FALSE],
    [name |-> <<"l", "p", "a", "r">>, chars |-> <<"(">>, legacy |-> FALSE],
    [name |-> <<"l", "p", "a", "r", "l", "t">>, chars |-> <<"\\u2993">>, legacy |-> FALSE],
    [name |-> <<"l", "r", "a", "r", "r">>, chars |-> <<"\\u21c6">>, legacy |-> FALSE],
    [name |-> <<"l", "r", "c", "o", "r", "n", "e", "r">>, chars |-> <<"\\u231f">>, legacy |-> FALSE],
    [name |-> <<"l", "r", "h", "a", "r">>, chars |-> <<"\\u21cb">>, legacy |-> FALSE],
    [name |-> <<"l", "r", "h", "a", "r", "d">>, chars |-> <<"\\u296d">>, legacy |-> FALSE],
    [name |-> <<"l", "r", "m">>, chars |-> <<"\\u200e">>, legacy |-> FALSE],
    [name |-> <<"l", "r", "t", "r", "i">>, chars |-> <<"\\u22bf">>, legacy |-> FALSE],
    [name |-> <<"l", "s", "a", "q", "u", "o">>, chars |-> <<"\\u2039">>, legacy |-> FALSE],
    [name |-> <<"l", "s", "c", "r">>, chars |-> <<"\\U0001d4c1">>, legacy |-> FALSE],
    [name |-> <<"l", "s", "h">>, chars |-> <<"\\u21b0">>, legacy |-> FALSE],
    [name |-> <<"l", "s", "i", "m">>, chars |-> <<"\\u2272">>, legacy |-> FALSE],
    [name |-> <<"l", "s", "i", "m", "e">>, chars |-> <<"\\u2a8d">>, legacy |-> FALSE],
    [name |-> <<"l", "s", "i", "m", "g">>, chars |-> <<"\\u2a8f">>, legacy |-> FALSE],
    [name |-> <<"l", "s", "q", "b">>, chars |-> <<"[">>, legacy |-> FALSE],
    [name |-> <<"l", "s", "q", "u", "o">>, chars |-> <<"\\u2018">>, legacy |-> FALSE],
    [name |-> <<"l", "s", "q", "u", "o", "r">>, chars |-> <<"\\u201a">>, legacy |-> FALSE],
    [name |-> <<"l", "s", "t", "r", "o", "k">>, chars |-> <<"\\u0142">>, legacy |-> FALSE],
    [name |-> <<"l", "t">>, chars |-> <<"<">>, legacy |-> TRUE],
    [name |-> <<"l", "t", "c", "c">>, chars |-> <<"\\u2aa6">>, legacy |-> FALSE],
    [name |-> <<"l", "t", "c", "i", "r">>, chars |-> <<"\\u2a79">>, legacy |-> FALSE],
    [name |-> <<"l", "t", "d", "o", "t">>, chars |-> <<"\\u22d6">>, legacy |-> FALSE],
    [name |-> <<"l", "t", "h", "r", "e", "e">>, chars |-> <<"\\u22cb">>, legacy |-> FALSE],
    [name |-> <<"l", "t", "i", "m", "e", "s">>, chars |-> <<"\\u22c9">>, legacy |-> FALSE],
    [name |-> <<"l", "t", "l", "a", "r", "r">>, chars |-> <<"\\u2976">>, legacy |-> FALSE],
    [name |-> <<"l", "t", "q", "u", "e", "s", "t">>, chars |-> <<"\\u2a7b">>, legacy |-> FALSE],
    [name |-> <<"l", "t", "r", "P", "a", "r">>, chars |-> <<"\\u2996">>, legacy |-> FALSE],
    [name |-> <<"l", "t", "r", "i">>, chars |-> <<"\\u25c3">>, legacy |-> FALSE],
    [name |-> <<"l", "t", "r", "i", "e">>, chars |-> <<"\\u22b4">>, legacy |-> FALSE],
    [name |-> <<"l", "t", "r", "i", "f">>, chars |-> <<"\\u25c2">>, legacy |-> FALSE],
    [name |-> <<"l", "u", "r", "d", "s", "h", "a", "r">>, chars |-> <<"\\u294a">>, legacy |-> FALSE],
    [name |-> <<"l", "u", "r", "u", "h", "a", "r">>, chars |-> <<"\\u2966">>, legacy |-> FALSE],
    [name |-> <<"l", "v", "e", "r", "t", "n", "e", "q", "q">>, chars |-> <<"\\u2268", "\\ufe00">>, legacy |-> FALSE],
    [name |-> <<"l", "v", "n", "E">>, chars |-> <<"\\u2268", "\\ufe00">>, legacy |-> FALSE],
    [name |-> <<"m", "D", "D", "o", "t">>, chars |-> <<"\\u223a">>, legacy |-> FALSE],
    [name |-> <<"m", "a", "c", "r">>, chars |-> <<"\\u00af">>, legacy |-> TRUE],
    [name |-> <<"m", "a", "l", "e">>, chars |-> <<"\\u2642">>, legacy |-> FALSE],
    [name |-> <<"m", "a", "l", "t">>, chars |-> <<"\\u2720">>, legacy |-> FALSE],
    [name |-> <<"m", "a", "l", "t", "e", "s", "e">>, chars |-> <<"\\u2720">>, legacy |-> FALSE],
    [name |-> <<"m", "a", "p">>, chars |-> <<"\\u21a6">>, legacy |-> FALSE],
    [name |-> <<"m", "a", "p", "s", "t", "o">>, chars |-> <<"\\u21a6">>, legacy |-> FALSE],
    [name |-> <<"m", "a", "p", "s", "t", "o", "d", "o", "w", "n">>, chars |-> <<"\\u21a7">>, legacy |-> FALSE],
    [name |-> <<"m", "a", "p", "s", "t", "o", "l", "e", "f", "t">>, chars |-> <<"\\u21a4">>, legacy |-> FALSE],
    [name |-> <<"m", "a", "p", "s", "t", "o", "u", "p">>, chars |-> <<"\\u21a5">>, legacy |-> FALSE],
    [name |-> <<"m", "a", "r", "k", "e", "r">>, chars |-> <<"\\u25ae">>, legacy |-> FALSE],
    [name |-> <<"m", "c", "o", "m", "m", "a">>, chars |-> <<"\\u2a29">>, legacy |-> FALSE],
    [name |-> <<"m", "c", "y">>, chars |-> <<"\\u043c">>, legacy |-> FALSE],
    [name |-> <<"m", "d", "a", "s", "h">>, chars |-> <<"\\u2014">>, legacy |-> FALSE],
    [name |-> <<"m", "e", "a", "s", "u", "r", "e", "d", "a", "n", "g", "l", "e">>, chars |-> <<"\\u2221">>, legacy |-> FALSE],
    [name |-> <<"m", "f", "r">>, chars |-> <<"\\U0001d52a">>, legacy |-> FALSE],
    [name |-> <<"m", "h", "o">>, chars |-> <<"\\u2127">>, legacy |-> FALSE],
    [name |-> <<"m", "i", "c", "r", "o">>, chars |-> <<"\\u00b5">>, legacy |-> TRUE],
    [name |-> <<"m", "i", "d">>, chars |-> <<"\\u2223">>, legacy |-> FALSE],
    [name |-> <<"m", "i", "d", "a", "s", "t">>, chars |-> <<"*">>, legacy |-> FALSE],
    [name |-> <<"m", "i", "d", "c", "i", "r">>, chars |-> <<"\\u2af0">>, legacy |-> FALSE],
    [name |-> <<"m", "i", "d", "d", "o", "t">>, chars |-> <<"\\u00b7">>, legacy |-> TRUE],
    [name |-> <<"m", "i", "n", "u", "s">>, chars |-> <<"\\u2212">>, legacy |-> FALSE],
    [name |-> <<"m", "i", "n", "u", "s", "b">>, chars |-> <<"\\u229f">>, legacy |-> FALSE],
    [name |-> <<"m", "i", "n", "u", "s", "d">>, chars |-> <<"\\u2238">>, legacy |-> FALSE],
    [name |-> <<"m", "i", "n", "u", "s", "d", "u">>, chars |-> <<"\\u2a2a">>, legacy |-> FALSE],
    [name |-> <<"m", "l", "c", "p">>, chars |-> <<"\\u2adb">>, legacy |-> FALSE],
    [name |-> <<"m", "l", "d", "r">>, chars |-> <<"\\u2026">>, legacy |-> FALSE],
    [name |-> <<"m", "n", "p", "l", "u", "s">>, chars |-> <<"\\u2213">>, legacy |-> FALSE],
    [name |-> <<"m", "o", "d", "e", "l", "s">>, chars |-> <<"\\u22a7">>, legacy |-> FALSE],
    [name |-> <<"m", "o", "p", "f">>, chars |-> <<"\\U0001d55e">>, legacy |-> FALSE],
    [name |-> <<"m", "p">>, chars |-> <<"\\u2213">>, legacy |-> FALSE],
    [name |-> <<"m", "s", "c", "r">>, chars |-> <<"\\U0001d4c2">>, legacy |-> FALSE],
    [name |-> <<"m", "s", "t", "p", "o", "s">>, chars |-> <<"\\u223e">>, legacy |-> FALSE],
    [name |-> <<"m", "u">>, chars |-> <<"\\u03bc">>, legacy |-> FALSE],
    [name |-> <<"m", "u", "l", "t", "i", "m", "a", "p">>, chars |-> <<"\\u22b8">>, legacy |-> FALSE],
    [name |-> <<"m", "u", "m", "a", "p">>, chars |-> <<"\\u22b8">>, legacy |-> FALSE],
    [name |-> <<"n", "G", "g">>, chars |-> <<"\\u22d9", "\\u0338">>, legacy |-> FALSE],
    [name |-> <<"n", "G", "t">>, chars |-> <<"\\u226b", "\\u20d2">>, legacy |-> FALSE],
    [name |-> <<"n", "G", "t", "v">>, chars |-> <<"\\u226b", "\\u0338">>, legacy |-> FALSE],
    [name |-> <<"n", "L", "e", "f", "t", "a", "r", "r", "o", "w">>, chars |-> <<"\\u21cd">>, legacy |-> FALSE],
    [name |-> <<"n", "L", "e", "f", "t", "r", "i", "g", "h", "t", "a", "r", "r", "o", "w">>, chars |-> <<"\\u21ce">>, legacy |-> FALSE],
    [name |-> <<"n", "L", "l">>, chars |-> <<"\\u22d8", "\\u0338">>, legacy |-> FALSE],
    [name |-> <<"n", "L", "t">>, chars |-> <<"\\u226a", "\\u20d2">>, legacy |-> FALSE],
    [name |-> <<"n", "L", "t", "v">>, chars |-> <<"\\u226a", "\\u0338">>, legacy |-> FALSE],
    [name |-> <<"n", "R", "i", "g", "h", "t", "a", "r", "r", "o", "w">>, chars |-> <<"\\u21cf">>, legacy |-> FALSE],
    [name |-> <<"n", "V", "D", "a", "s", "h">>, chars |-> <<"\\u22af">>, legacy |-> FALSE],
    [name |-> <<"n", "V", "d", "a", "s", "h">>, chars |-> <<"\\u22ae">>, legacy |-> FALSE],
    [name |-> <<"n", "a", "b", "l", "a">>, chars |-> <<"\\u2207">>, legacy |-> FALSE],
    [name |-> <<"n", "a", "c", "u", "t", "e">>, chars |-> <<"\\u0144">>, legacy |-> FALSE],
    [name |-> <<"n", "a", "n", "g">>, chars |-> <<"\\u2220", "\\u20d2">>, legacy |-> FALSE],
    [name |-> <<"n", "a", "p">>, chars |-> <<"\\u2249">>, legacy |-> FALSE],
    [name |-> <<"n", "a", "p", "E">>, chars |-> <<"\\u2a70", "\\u0338">>, legacy |-> FALSE],
    [name |-> <<"n", "a", "p", "i", "d">>, chars |-> <<"\\u224b", "\\u0338">>, legacy |-> FALSE],
    [name |-> <<"n", "a", "p", "o", "s">>, chars |-> <<"\\u0149">>, legacy |-> FALSE],
    [name |-> <<"n", "a", "p", "p", "r", "o", "x">>, chars |-> <<"\\u2249">>, legacy |-> FALSE],
    [name |-> <<"n", "a", "t", "u", "r">>, chars |-> <<"\\u266e">>, legacy |-> FALSE],
    [name |-> <<"n", "a", "t", "u", "r", "a", "l">>, chars |-> <<"\\u266e">>, legacy |-> FALSE],
    [name |-> <<"n", "a", "t", "u", "r", "a", "l", "s">>, chars |-> <<"\\u2115">>, legacy |-> FALSE],
    [name |-> <<"n", "b", "s", "p">>, chars |-> <<"\\u00a0">>, legacy |-> TRUE],
    [name |-> <<"n", "b", "u", "m", "p">>, chars |-> <<"\\u224e", "\\u0338">>, legacy |-> FALSE],
    [name |-> <<"n", "b", "u", "m", "p", "e">>, chars |-> <<"\\u224f", "\\u0338">>, legacy |-> FALSE],
    [name |-> <<"n", "c", "a", "p">>, chars |-> <<"\\u2a43">>, legacy |-> FALSE],
    [name |-> <<"n", "c", "a", "r", "o", "n">>, chars |-> <<"\\u0148">>, legacy |-> FALSE],
    [name |-> <<"n", "c", "e", "d", "i", "l">>, chars |-> <<"\\u0146">>, legacy |-> FALSE],
    [name |-> <<"n", "c", "o", "n", "g">>, chars |-> <<"\\u2247">>, legacy |-> FALSE],
    [name |-> <<"n", "c", "o", "n", "g", "d", "o", "t">>, chars |-> <<"\\u2a6d", "\\u0338">>, legacy |-> FALSE],
    [name |-> <<"n", "c", "u", "p">>, chars |-> <<"\\u2a42">>, legacy |-> FALSE],
    [name |-> <<"n", "c", "y">>, chars |-> <<"\\u043d">>, legacy |-> FALSE],
    [name |-> <<"n", "d", "a", "s", "h">>, chars |-> <<"\\u2013">>, legacy |-> FALSE],
    [name |-> <<"n", "e">>, chars |-> <<"\\u2260">>, legacy |-> FALSE],
    [name |-> <<"n", "e", "A", "r", "r">>, chars |-> <<"\\u21d7">>, legacy |-> FALSE],
    [name |-> <<"n", "e", "a", "r", "h", "k">>, chars |-> <<"\\u2924">>, legacy |-> FALSE],
    [name |-> <<"n", "e", "a", "r", "r">>, chars |-> <<"\\u2197">>, legacy |-> FALSE],
    [name |-> <<"n", "e", "a", "r", "r", "o", "w">>, chars |-> <<"\\u2197">>, legacy |-> FALSE],
    [name |-> <<"n", "e", "d", "o", "t">>, chars |-> <<"\\u2250", "\\u0338">>, legacy |-> FALSE],
    [name |-> <<"n", "e", "q", "u", "i", "v">>, chars |-> <<"\\u2262">>, legacy |-> FALSE],
    [name |-> <<"n", "e", "s", "e", "a", "r">>, chars |-> <<"\\u2928">>, legacy |-> FALSE],
    [name |-> <<"n", "e", "s", "i", "m">>, chars |-> <<"\\u2242", "\\u0338">>, legacy |-> FALSE],
    [name |-> <<"n", "e", "x", "i", "s", "t">>, chars |-> <<"\\u2204">>, legacy |-> FALSE],
    [name |-> <<"n", "e", "x", "i", "s", "t", "s">>, chars |-> <<"\\u2204">>, legacy |-> FALSE],
    [name |-> <<"n", "f", "r">>, chars |-> <<"\\U0001d52b">>, legacy |-> FALSE],
    [name |-> <<"n", "g", "E">>, chars |-> <<"\\u2267", "\\u0338">>, legacy |-> FALSE],
    [name |-> <<"n", "g", "e">>, chars |-> <<"\\u2271">>, legacy |-> FALSE],
    [name |-> <<"n", "g", "e", "q">>, chars |-> <<"\\u2271">>, legacy |-> FALSE],
    [name |-> <<"n", "g", "e", "q", "q">>, chars |-> <<"\\u2267", "\\u0338">>, legacy |-> FALSE],
    [name |-> <<"n", "g", "e", "q", "s", "l", "a", "n", "t">>, chars |-> <<"\\u2a7e", "\\u0338">>, legacy |-> FALSE],
    [name |-> <<"n", "g", "e", "s">>, chars |-> <<"\\u2a7e", "\\u0338">>, legacy |-> FALSE],
    [name |-> <<"n", "g", "s", "i", "m">>, chars |-> <<"\\u2275">>, legacy |-> FALSE],
    [name |-> <<"n", "g", "t">>, chars |-> <<"\\u226f">>, legacy |-> FALSE],
    [name |-> <<"n", "g", "t", "r">>, chars |-> <<"\\u226f">>, legacy |-> FALSE],
    [name |-> <<"n", "h", "A", "r", "r">>, chars |-> <<"\\u21ce">>, legacy |-> FALSE],
    [name |-> <<"n", "h", "a", "r", "r">>, chars |-> <<"\\u21ae">>, legacy |-> FALSE],
    [name |-> <<"n", "h", "p", "a", "r">>, chars |-> <<"\\u2af2">>, legacy |-> FALSE],
    [name |-> <<"n", "i">>, chars |-> <<"\\u220b">>, legacy |-> FALSE],
    [name |-> <<"n", "i", "s">>, chars |-> <<"\\u22fc">>, legacy |-> FALSE],
    [name |-> <<"n", "i", "s", "d">>, chars |-> <<"\\u22fa">>, legacy |-> FALSE],
    [name |-> <<"n", "i", "v">>, chars |-> <<"\\u220b">>, legacy |-> FALSE],
    [name |-> <<"n", "j", "c", "y">>, chars |-> <<"\\u045a">>, legacy |-> FALSE],
    [name |-> <<"n", "l", "A", "r", "r">>, chars |-> <<"\\u21cd">>, legacy |-> FALSE],
    [name |-> <<"n", "l", "E">>, chars |-> <<"\\u2266", "\\u0338">>, legacy |-> FALSE],
    [name |-> <<"n", "l", "a", "r", "r">>, chars |-> <<"\\u219a">>, legacy |-> FALSE],
    [name |-> <<"n", "l", "d", "r">>, chars |-> <<"\\u2025">>, legacy |-> FALSE],
    [name |-> <<"n", "l", "e">>, chars |-> <<"\\u2270">>, legacy |-> FALSE],
    [name |-> <<"n", "l", "e", "f", "t", "a", "r", "r", "o", "w">>, chars |-> <<"\\u219a">>, legacy |-> FALSE],
    [name |-> <<"n", "l", "e", "f", "t", "r", "i", "g", "h", "t", "a", "r", "r", "o", "w">>, chars |-> <<"\\u21ae">>, legacy |-> FALSE],
    [name |-> <<"n", "l", "e", "q">>, chars |-> <<"\\u2270">>, legacy |-> FALSE],
    [name |-> <<"n", "l", "e", "q", "q">>, chars |-> <<"\\u2266", "\\u0338">>, legacy |-> FALSE],
    [name |-> <<"n", "l", "e", "q", "s", "l", "a", "n", "t">>, chars |-> <<"\\u2a7d", "\\u0338">>, legacy |-> FALSE],
    [name |-> <<"n", "l", "e", "s">>, chars |-> <<"\\u2a7d", "\\u0338">>, legacy |-> FALSE],
    [name |-> <<"n", "l", "e", "s", "s">>, chars |-> <<"\\u226e">>, legacy |-> FALSE],
    [name |-> <<"n", "l", "s", "i", "m">>, chars |-> <<"\\u2274">>, legacy |-> FALSE],
    [name |-> <<"n", "l", "t">>, chars |-> <<"\\u226e">>, legacy |-> FALSE],
    [name |-> <<"n", "l", "t", "r", "i">>, chars |-> <<"\\u22ea">>, legacy |-> FALSE],
    [name |-> <<"n", "l", "t", "r", "i", "e">>, chars |-> <<"\\u22ec">>, legacy |-> FALSE],
    [name |-> <<"n", "m", "i", "d">>, chars |-> <<"\\u2224">>, legacy |-> FALSE],
    [name |-> <<"n", "o", "p", "f">>, chars |-> <<"\\U0001d55f">>, legacy |-> FALSE],
    [name |-> <<"n", "o", "t">>, chars |-> <<"\\u00ac">>, legacy |-> TRUE],
    [name |-> <<"n", "o", "t", "i", "n">>, chars |-> <<"\\u2209">>, legacy |-> FALSE],
    [name |-> <<"n", "o", "t", "i", "n", "E">>, chars |-> <<"\\u22f9", "\\u0338">>, legacy |-> FALSE],
    [name |-> <<"n", "o", "t", "i", "n", "d", "o", "t">>, chars |-> <<"\\u22f5", "\\u0338">>, legacy |-> FALSE],
    [name |-> <<"n", "o", "t", "i", "n", "v", "a">>, chars |-> <<"\\u2209">>, legacy |-> FALSE],
    [name |-> <<"n", "o", "t", "i", "n", "v", "b">>, chars |-> <<"\\u22f7">>, legacy |-> FALSE],
    [name |-> <<"n", "o", "t", "i", "n", "v", "c">>, chars |-> <<"\\u22f6">>, legacy |-> FALSE],
    [name |-> <<"n", "o", "t", "n", "i">>, chars |-> <<"\\u220c">>, legacy |-> FALSE],
    [name |-> <<"n", "o", "t", "n", "i", "v", "a">>, chars |-> <<"\\u220c">>, legacy |-> FALSE],
    [name |-> <<"n", "o", "t", "n", "i", "v", "b">>, chars |-> <<"\\u22fe">>, legacy |-> FALSE],
    [name |-> <<"n", "o", "t", "n", "i", "v", "c">>, chars |-> <<"\\u22fd">>, legacy |-> FALSE],
    [name |-> <<"n", "p", "a", "r">>, chars |-> <<"\\u2226">>, legacy |-> FALSE],
    [name |-> <<"n", "p", "a", "r", "a", "l", "l", "e", "l">>, chars |-> <<"\\u2226">>, legacy |-> FALSE],
    [name |-> <<"n", "p", "a", "r", "s", "l">>, chars |-> <<"\\u2afd", "\\u20e5">>, legacy |-> FALSE],
    [name |-> <<"n", "p", "a", "r", "t">>, chars |-> <<"\\u2202", "\\u0338">>, legacy |-> FALSE],
    [name |-> <<"n", "p", "o", "l", "i", "n", "t">>, chars |-> <<"\\u2a14">>, legacy |-> FALSE],
    [name |-> <<"n", "p", "r">>, chars |-> <<"\\u2280">>, legacy |-> FALSE],
    [name |-> <<"n", "p", "r", "c", "u", "e">>, chars |-> <<"\\u22e0">>, legacy |-> FALSE],
    [name |-> <<"n", "p", "r", "e">>, chars |-> <<"\\u2aaf", "\\u0338">>, legacy |-> FALSE],
    [name |-> <<"n", "p", "r", "e", "c">>, chars |-> <<"\\u2280">>, legacy |-> FALSE],
    [name |-> <<"n", "p", "r", "e", "c", "e", "q">>, chars |-> <<"\\u2aaf", "\\u0338">>, legacy |-> FALSE],
    [name |-> <<"n", "r", "A", "r", "r">>, chars |-> <<"\\u21cf">>, legacy |-> FALSE],
    [name |-> <<"n", "r", "a", "r", "r">>, chars |-> <<"\\u219b">>, legacy |-> FALSE],
    [name |-> <<"n", "r", "a", "r", "r", "c">>, chars |-> <<"\\u2933", "\\u0338">>, legacy |-> FALSE],
    [name |-> <<"n", "r", "a", "r", "r", "w">>, chars |-> <<"\\u219d", "\\u0338">>, legacy |-> FALSE],
    [name |-> <<"n", "r", "i", "g", "h", "t", "a", "r", "r", "o", "w">>, chars |-> <<"\\u219b">>, legacy |-> FALSE],
    [name |-> <<"n", "r", "t", "r", "i">>, chars |-> <<"\\u22eb">>, legacy |-> FALSE],
    [name |-> <<"n", "r", "t", "r", "i", "e">>, chars |-> <<"\\u22ed">>, legacy |-> FALSE],
    [name |-> <<"n", "s", "c">>, chars |-> <<"\\u2281">>, legacy |-> FALSE],
    [name |-> <<"n", "s", "c", "c", "u", "e">>, chars |-> <<"\\u22e1">>, legacy |-> FALSE],
    [name |-> <<"n", "s", "c", "e">>, chars |-> <<"\\u2ab0", "\\u0338">>, legacy |-> FALSE],
    [name |-> <<"n", "s", "c", "r">>, chars |-> <<"\\U0001d4c3">>, legacy |-> FALSE],
    [name |-> <<"n", "s", "h", "o", "r", "t", "m", "i", "d">>, chars |-> <<"\\u2224">>, legacy |-> FALSE],
    [name |-> <<"n", "s", "h", "o", "r", "t", "p", "a", "r", "a", "l", "l", "e", "l">>, chars |-> <<"\\u2226">>, legacy |-> FALSE],
    [name |-> <<"n", "s", "i", "m">>, chars |-> <<"\\u2241">>, legacy |-> FALSE],
    [name |-> <<"n", "s", "i", "m", "e">>, chars |-> <<"\\u2244">>, legacy |-> FALSE],
    [name |-> <<"n", "s", "i", "m", "e", "q">>, chars |-> <<"\\u2244">>, legacy |-> FALSE],
    [name |-> <<"n", "s", "m", "i", "d">>, chars |-> <<"\\u2224">>, legacy |-> FALSE],
    [name |-> <<"n", "s", "p", "a", "r">>, chars |-> <<"\\u2226">>, legacy |-> FALSE],
    [name |-> <<"n", "s", "q", "s", "u", "b", "e">>, chars |-> <<"\\u22e2">>, legacy |-> FALSE],
    [name |-> <<"n", "s", "q", "s", "u", "p", "e">>, chars |-> <<"\\u22e3">>, legacy |-> FALSE],
    [name |-> <<"n", "s", "u", "b">>, chars |-> <<"\\u2284">>, legacy |-> FALSE],
    [name |-> <<"n", "s", "u", "b", "E">>, chars |-> <<"\\u2ac5", "\\u0338">>, legacy |-> FALSE],
    [name |-> <<"n", "s", "u", "b", "e">>, chars |-> <<"\\u2288">>, legacy |-> FALSE],
    [name |-> <<"n", "s", "u", "b", "s", "e", "t">>, chars |-> <<"\\u2282", "\\u20d2">>, legacy |-> FALSE],
    [name |-> <<"n", "s", "u", "b", "s", "e", "t", "e", "q">>, chars |-> <<"\\u2288">>, legacy |-> FALSE],
    [name |-> <<"n", "s", "u", "b", "s", "e", "t", "e", "q", "q">>, chars |-> <<"\\u2ac5", "\\u0338">>, legacy |-> FALSE],
    [name |-> <<"n", "s", "u", "c", "c">>, chars |-> <<"\\u2281">>, legacy |-> FALSE],
    [name |-> <<"n", "s", "u", "c", "c", "e", "q">>, chars |-> <<"\\u2ab0", "\\u0338">>, legacy |-> FALSE],
    [name |-> <<"n", "s", "u", "p">>, chars |-> <<"\\u2285">>, legacy |-> FALSE],
    [name |-> <<"n", "s", "u", "p", "E">>, chars |-> <<"\\u2ac6", "\\u0338">>, legacy |-> FALSE],
    [name |-> <<"n", "s", "u", "p", "e">>, chars |-> <<"\\u2289">>, legacy |-> FALSE],
    [name |-> <<"n", "s", "u", "p", "s", "e", "t">>, chars |-> <<"\\u2283", "\\u20d2">>, legacy |-> FALSE],
    [name |-> <<"n", "s", "u", "p", "s", "e", "t", "e", "q">>, chars |-> <<"\\u2289">>, legacy |-> FALSE],
    [name |-> <<"n", "s", "u", "p", "s", "e", "t", "e", "q", "q">>, chars |-> <<"\\u2ac6", "\\u0338">>, legacy |-> FALSE],
    [name |-> <<"n", "t", "g", "l">>, chars |-> <<"\\u2279">>, legacy |-> FALSE],
    [name |-> <<"n", "t", "i", "l", "d", "e">>, chars |-> <<"\\u00f1">>, legacy |-> TRUE],
    [name |-> <<"n", "t", "l", "g">>, chars |-> <<"\\u2278">>, legacy |-> FALSE],
    [name |-> <<"n", "t", "r", "i", "a", "n", "g", "l", "e", "l", "e", "f", "t">>, chars |-> <<"\\u22ea">>, legacy |-> FALSE],
    [name |-> <<"n", "t", "r", "i", "a", "n", "g", "l", "e", "l", "e", "f", "t", "e", "q">>, chars |-> <<"\\u22ec">>, legacy |-> FALSE],
    [name |-> <<"n", "t", "r", "i", "a", "n", "g", "l", "e", "r", "i", "g", "h", "t">>, chars |-> <<"\\u22eb">>, legacy |-> FALSE],
    [name |-> <<"n", "t", "r", "i", "a", "n", "g", "l", "e", "r", "i", "g", "h", "t", "e", "q">>, chars |-> <<"\\u22ed">>, legacy |-> FALSE],
    [name |-> <<"n", "u">>, chars |-> <<"\\u03bd">>, legacy |-> FALSE],
    [name |-> <<"n", "u", "m">>, chars |-> <<"#">>, legacy |-> FALSE],
    [name |-> <<"n", "u", "m", "e", "r", "o">>, chars |-> <<"\\u2116">>, legacy |-> FALSE],
    [name |-> <<"n", "u", "m", "s", "p">>, chars |-> <<"\\u2007">>, legacy |-> FALSE],
    [name |-> <<"n", "v", "D", "a", "s", "h">>, chars |-> <<"\\u22ad">>, legacy |-> FALSE],
    [name |-> <<"n", "v", "H", "a", "r", "r">>, chars |-> <<"\\u2904">>, legacy |-> FALSE],
    [name |-> <<"n", "v", "a", "p">>, chars |-> <<"\\u224d", "\\u20d2">>, legacy |-> FALSE],
    [name |-> <<"n", "v", "d", "a", "s", "h">>, chars |-> <<"\\u22ac">>, legacy |-> FALSE],
    [name |-> <<"n", "v", "g", "e">>, chars |-> <<"\\u2265", "\\u20d2">>, legacy |-> FALSE],
    [name |-> <<"n", "v", "g", "t">>, chars |-> <<">", "\\u20d2">>, legacy |-> FALSE],
    [name |-> <<"n", "v", "i", "n", "f", "i", "n">>, chars |-> <<"\\u29de">>, legacy |-> FALSE],
    [name |-> <<"n", "v", "l", "A", "r", "r">>, chars |-> <<"\\u2902">>, legacy |-> FALSE],
    [name |-> <<"n", "v", "l", "e">>, chars |-> <<"\\u2264", "\\u20d2">>, legacy |-> FALSE],
    [name |-> <<"n", "v", "l", "t">>, chars |-> <<"<", "\\u20d2">>, legacy |-> FALSE],
    [name |-> <<"n", "v", "l", "t", "r", "i", "e">>, chars |-> <<"\\u22b4", "\\u20d2">>, legacy |-> FALSE],
    [name |-> <<"n", "v", "r", "A", "r", "r">>, chars |-> <<"\\u2903">>, legacy |-> FALSE],
    [name |-> <<"n", "v", "r", "t", "r", "i", "e">>, chars |-> <<"\\u22b5", "\\u20d2">>, legacy |-> FALSE],
    [name |-> <<"n", "v", "s", "i", "m">>, chars |-> <<"\\u223c", "\\u20d2">>, legacy |-> FALSE],
    [name |-> <<"n", "w", "A", "r", "r">>, chars |-> <<"\\u21d6">>, legacy |-> FALSE],
    [name |-> <<"n", "w", "a", "r", "h", "k">>, chars |-> <<"\\u2923">>, legacy |-> FALSE],
    [name |-> <<"n", "w", "a", "r", "r">>, chars |-> <<"\\u2196">>, legacy |-> FALSE],
    [name |-> <<"n", "w", "a", "r", "r", "o", "w">>, chars |-> <<"\\u2196">>, legacy |-> FALSE],
    [name |-> <<"n", "w", "n", "e", "a", "r">>, chars |-> <<"\\u2927">>, legacy |-> FALSE],
    [name |-> <<"o", "S">>, chars |-> <<"\\u24c8">>, legacy |-> FALSE],
    [name |-> <<"o", "a", "c", "u", "t", "e">>, chars |-> <<"\\u00f3">>, legacy |-> TRUE],
    [name |-> <<"o", "a", "s", "t">>, chars |-> <<"\\u229b">>, legacy |-> FALSE],
    [name |-> <<"o", "c", "i", "r">>, chars |-> <<"\\u229a">>, legacy |-> FALSE],
    [name |-> <<"o", "c", "i", "r", "c">>, chars |-> <<"\\u00f4">>, legacy |-> TRUE],
    [name |-> <<"o", "c", "y">>, chars |-> <<"\\u043e">>, legacy |-> FALSE],
    [name |-> <<"o", "d", "a", "s", "h">>, chars |-> <<"\\u229d">>, legacy |-> FALSE],
    [name |-> <<"o", "d", "b", "l", "a", "c">>, chars |-> <<"\\u0151">>, legacy |-> FALSE],
    [name |-> <<"o", "d", "i", "v">>, chars |-> <<"\\u2a38">>, legacy |-> FALSE],
    [name |-> <<"o", "d", "o", "t">>, chars |-> <<"\\u2299">>, legacy |-> FALSE],
    [name |-> <<"o", "d", "s", "o", "l", "d">>, chars |-> <<"\\u29bc">>, legacy |-> FALSE],
    [name |-> <<"o", "e", "l", "i", "g">>, chars |-> <<"\\u0153">>, legacy |-> FALSE],
    [name |-> <<"o", "f", "c", "i", "r">>, chars |-> <<"\\u29bf">>, legacy |-> FALSE],
    [name |-> <<"o", "f", "r">>, chars |-> <<"\\U0001d52c">>, legacy |-> FALSE],
    [name |-> <<"o", "g", "o", "n">>, chars |-> <<"\\u02db">>, legacy |-> FALSE],
    [name |-> <<"o", "g", "r", "a", "v", "e">>, chars |-> <<"\\u00f2">>, legacy |-> TRUE],
    [name |-> <<"o", "g", "t">>, chars |-> <<"\\u29c1">>, legacy |-> FALSE],
    [name |-> <<"o", "h", "b", "a", "r">>, chars |-> <<"\\u29b5">>, legacy |-> FALSE],
    [name |-> <<"o", "h", "m">>, chars |-> <<"\\u03a9">>, legacy |-> FALSE],
    [name |-> <<"o", "i", "n", "t">>, chars |-> <<"\\u222e">>, legacy |-> FALSE],
    [name |-> <<"o", "l", "a", "r", "r">>, chars |-> <<"\\u21ba">>, legacy |-> FALSE],
    [name |-> <<"o", "l", "c", "i", "r">>, chars |-> <<"\\u29be">>, legacy |-> FALSE],
    [name |-> <<"o", "l", "c", "r", "o", "s", "s">>, chars |-> <<"\\u29bb">>, legacy |-> FALSE],
    [name |-> <<"o", "l", "i", "n", "e">>, chars |-> <<"\\u203e">>, legacy |-> FALSE],
    [name |-> <<"o", "l", "t">>, chars |-> <<"\\u29c0">>, legacy |-> FALSE],
    [name |-> <<"o", "m", "a", "c", "r">>, chars |-> <<"\\u014d">>, legacy |-> FALSE],
    [name |-> <<"o", "m", "e", "g", "a">>, chars |-> <<"\\u03c9">>, legacy |-> FALSE],
    [name |-> <<"o", "m", "i", "c", "r", "o", "n">>, chars |-> <<"\\u03bf">>, legacy |-> FALSE],
    [name |-> <<"o", "m", "i", "d">>, chars |-> <<"\\u29b6">>, legacy |-> FALSE],
    [name |-> <<"o", "m", "i", "n", "u", "s">>, chars |-> <<"\\u2296">>, legacy |-> FALSE],
    [name |-> <<"o", "o", "p", "f">>, chars |-> <<"\\U0001d560">>, legacy |-> FALSE],
    [name |-> <<"o", "p", "a", "r">>, chars |-> <<"\\u29b7">>, legacy |-> FALSE],
    [name |-> <<"o", "p", "e", "r", "p">>, chars |-> <<"\\u29b9">>, legacy |-> FALSE],
    [name |-> <<"o", "p", "l", "u", "s">>, chars |-> <<"\\u2295">>, legacy |-> FALSE],
    [name |-> <<"o", "r">>, chars |-> <<"\\u2228">>, legacy |-> FALSE],
    [name |-> <<"o", "r", "a", "r", "r">>, chars |-> <<"\\u21bb">>, legacy |-> FALSE],
    [name |-> <<"o", "r", "d">>, chars |-> <<"\\u2a5d">>, legacy |-> FALSE],
    [name |-> <<"o", "r", "d", "e", "r">>, chars |-> <<"\\u2134">>, legacy |-> FALSE],
    [name |-> <<"o", "r", "d", "e", "r", "o", "f">>, chars |-> <<"\\u2134">>, legacy |-> FALSE],
    [name |-> <<"o", "r", "d", "f">>, chars |-> <<"\\u00aa">>, legacy |-> TRUE],
    [name |-> <<"o", "r", "d", "m">>, chars |-> <<"\\u00ba">>, legacy |-> TRUE],
    [name |-> <<"o", "r", "i", "g", "o", "f">>, chars |-> <<"\\u22b6">>, legacy |-> FALSE],
    [name |-> <<"o", "r", "o", "r">>, chars |-> <<"\\u2a56">>, legacy |-> FALSE],
    [name |-> <<"o", "r", "s", "l", "o", "p", "e">>, chars |-> <<"\\u2a57">>, legacy |-> FALSE],
    [name |-> <<"o", "r", "v">>, chars |-> <<"\\u2a5b">>, legacy |-> FALSE],
    [name |-> <<"o", "s", "c", "r">>, chars |-> <<"\\u2134">>, legacy |-> FALSE],
    [name |-> <<"o", "s", "l", "a", "s", "h">>, chars |-> <<"\\u00f8">>, legacy |-> TRUE],
    [name |-> <<"o", "s", "o", "l">>, chars |-> <<"\\u2298">>, legacy |-> FALSE],
    [name |-> <<"o", "t", "i", "l", "d", "e">>, chars |-> <<"\\u00f5">>, legacy |-> TRUE],
    [name |-> <<"o", "t", "i", "m", "e", "s">>, chars |-> <<"\\u2297">>, legacy |-> FALSE],
    [name |-> <<"o", "t", "i", "m", "e", "s", "a", "s">>, chars |-> <<"\\u2a36">>, legacy |-> FALSE],
    [name |-> <<"o", "u", "m", "l">>, chars |-> <<"\\u00f6">>, legacy |-> TRUE],
    [name |-> <<"o", "v", "b", "a", "r">>, chars |-> <<"\\u233d">>, legacy |-> FALSE],
    [name |-> <<"p", "a", "r">>, chars |-> <<"\\u2225">>, legacy |-> FALSE],
    [name |-> <<"p", "a", "r", "a">>, chars |-> <<"\\u00b6">>, legacy |-> TRUE],
    [name |-> <<"p", "a", "r", "a", "l", "l", "e", "l">>, chars |-> <<"\\u2225">>, legacy |-> FALSE],
    [name |-> <<"p", "a", "r", "s", "i", "m">>, chars |-> <<"\\u2af3">>, legacy |-> FALSE],
    [name |-> <<"p", "a", "r", "s", "l">>, chars |-> <<"\\u2afd">>, legacy |-> FALSE],
    [name |-> <<"p", "a", "r", "t">>, chars |-> <<"\\u2202">>, legacy |-> FALSE],
    [name |-> <<"p", "c", "y">>, chars |-> <<"\\u043f">>, legacy |-> FALSE],
    [name |-> <<"p", "e", "r", "c", "n", "t">>, chars |-> <<"%">>, legacy |-> FALSE],
    [name |-> <<"p", "e", "r", "i", "o", "d">>, chars |-> <<".">>, legacy |-> FALSE],
    [name |-> <<"p", "e", "r", "m", "i", "l">>, chars |-> <<"\\u2030">>, legacy |-> FALSE],
    [name |-> <<"p", "e", "r", "p">>, chars |-> <<"\\u22a5">>, legacy |-> FALSE],
    [name |-> <<"p", "e", "r", "t", "e", "n", "k">>, chars |-> <<"\\u2031">>, legacy |-> FALSE],
    [name |-> <<"p", "f", "r">>, chars |-> <<"\\U0001d52d">>, legacy |-> FALSE],
    [name |-> <<"p", "h", "i">>, chars |-> <<"\\u03c6">>, legacy |-> FALSE],
    [name |-> <<"p", "h", "i", "v">>, chars |-> <<"\\u03d5">>, legacy |-> FALSE],
    [name |-> <<"p", "h", "m", "m", "a", "t">>, chars |-> <<"\\u2133">>, legacy |-> FALSE],
    [name |-> <<"p", "h", "o", "n", "e">>, chars |-> <<"\\u260e">>, legacy |-> FALSE],
    [name |-> <<"p", "i">>, chars |-> <<"\\u03c0">>, legacy |-> FALSE],
    [name |-> <<"p", "i", "t", "c", "h", "f", "o", "r", "k">>, chars |-> <<"\\u22d4">>, legacy |-> FALSE],
    [name |-> <<"p", "i", "v">>, chars |-> <<"\\u03d6">>, legacy |-> FALSE],
    [name |-> <<"p", "l", "a", "n", "c", "k">>, chars |-> <<"\\u210f">>, legacy |-> FALSE],
    [name |-> <<"p", "l", "a", "n", "c", "k", "h">>, chars |-> <<"\\u210e">>, legacy |-> FALSE],
    [name |-> <<"p", "l", "a", "n", "k", "v">>, chars |-> <<"\\u210f">>, legacy |-> FALSE],
    [name |-> <<"p", "l", "u", "s">>, chars |-> <<"+">>, legacy |-> FALSE],
    [name |-> <<"p", "l", "u", "s", "a", "c", "i", "r">>, chars |-> <<"\\u2a23">>, legacy |-> FALSE],
    [name |-> <<"p", "l", "u", "s", "b">>, chars |-> <<"\\u229e">>, legacy |-> FALSE],
    [name |-> <<"p", "l", "u", "s", "c", "i", "r">>, chars |-> <<"\\u2a22">>, legacy |-> FALSE],
    [name |-> <<"p", "l", "u", "s", "d", "o">>, chars |-> <<"\\u2214">>, legacy |-> FALSE],
    [name |-> <<"p", "l", "u", "s", "d", "u">>, chars |-> <<"\\u2a25">>, legacy |-> FALSE],
    [name |-> <<"p", "l", "u", "s", "e">>, chars |-> <<"\\u2a72">>, legacy |-> FALSE],
    [name |-> <<"p", "l", "u", "s", "m", "n">>, chars |-> <<"\\u00b1">>, legacy |-> TRUE],
    [name |-> <<"p", "l", "u", "s", "s", "i", "m">>, chars |-> <<"\\u2a26">>, legacy |-> FALSE],
    [name |-> <<"p", "l", "u", "s", "t", "w", "o">>, chars |-> <<"\\u2a27">>, legacy |-> FALSE],
    [name |-> <<"p", "m">>, chars |-> <<"\\u00b1">>, legacy |-> FALSE],
    [name |-> <<"p", "o", "i", "n", "t", "i", "n", "t">>, chars |-> <<"\\u2a15">>, legacy |-> FALSE],
    [name |-> <<"p", "o", "p", "f">>, chars |-> <<"\\U0001d561">>, legacy |-> FALSE],
    [name |-> <<"p", "o", "u", "n", "d">>, chars |-> <<"\\u00a3">>, legacy |-> TRUE],
    [name |-> <<"p", "r">>, chars |-> <<"\\u227a">>, legacy |-> FALSE],
    [name |-> <<"p", "r", "E">>, chars |-> <<"\\u2ab3">>, legacy |-> FALSE],
    [name |-> <<"p", "r", "a", "p">>, chars |-> <<"\\u2ab7">>, legacy |-> FALSE],
    [name |-> <<"p", "r", "c", "u", "e">>, chars |-> <<"\\u227c">>, legacy |-> FALSE],
    [name |-> <<"p", "r", "e">>, chars |-> <<"\\u2aaf">>, legacy |-> FALSE],
    [name |-> <<"p", "r", "e", "c">>, chars |-> <<"\\u227a">>, legacy |-> FALSE],
    [name |-> <<"p", "r", "e", "c", "a", "p", "p", "r", "o", "x">>, chars |-> <<"\\u2ab7">>, legacy |-> FALSE],
    [name |-> <<"p", "r", "e", "c", "c", "u", "r", "l", "y", "e", "q">>, chars |-> <<"\\u227c">>, legacy |-> FALSE],
    [name |-> <<"p", "r", "e", "c", "e", "q">>, chars |-> <<"\\u2aaf">>, legacy |-> FALSE],
    [name |-> <<"p", "r", "e", "c", "n", "a", "p", "p", "r", "o", "x">>, chars |-> <<"\\u2ab9">>, legacy |-> FALSE],
    [name |-> <<"p", "r", "e", "c", "n", "e", "q", "q">>, chars |-> <<"\\u2ab5">>, legacy |-> FALSE],
    [name |-> <<"p", "r", "e", "c", "n", "s", "i", "m">>, chars |-> <<"\\u22e8">>, legacy |-> FALSE],
    [name |-> <<"p", "r", "e", "c", "s", "i", "m">>, chars |-> <<"\\u227e">>, legacy |-> FALSE],
    [name |-> <<"p", "r", "i", "m", "e">>, chars |-> <<"\\u2032">>, legacy |-> FALSE],
    [name |-> <<"p", "r", "i", "m", "e", "s">>, chars |-> <<"\\u2119">>, legacy |-> FALSE],
    [name |-> <<"p", "r", "n", "E">>, chars |-> <<"\\u2ab5">>, legacy |-> FALSE],
    [name |-> <<"p", "r", "n", "a", "p">>, chars |-> <<"\\u2ab9">>, legacy |-> FALSE],
    [name |-> <<"p", "r", "n", "s", "i", "m">>, chars |-> <<"\\u22e8">>, legacy |-> FALSE],
    [name |-> <<"p", "r", "o", "d">>, chars |-> <<"\\u220f">>, legacy |-> FALSE],
    [name |-> <<"p", "r", "o", "f", "a", "l", "a", "r">>, chars |-> <<"\\u232e">>, legacy |-> FALSE],
    [name |-> <<"p", "r", "o", "f", "l", "i", "n", "e">>, chars |-> <<"\\u2312">>, legacy |-> FALSE],
    [name |-> <<"p", "r", "o", "f", "s", "u", "r", "f">>, chars |-> <<"\\u2313">>, legacy |-> FALSE],
    [name |-> <<"p", "r", "o", "p">>, chars |-> <<"\\u221d">>, legacy |-> FALSE],
    [name |-> <<"p", "r", "o", "p", "t", "o">>, chars |-> <<"\\u221d">>, legacy |-> FALSE],
    [name |-> <<"p", "r", "s", "i", "m">>, chars |-> <<"\\u227e">>, legacy |-> FALSE],
    [name |-> <<"p", "r", "u", "r", "e", "l">>, chars |-> <<"\\u22b0">>, legacy |-> FALSE],
    [name |-> <<"p", "s", "c", "r">>, chars |-> <<"\\U0001d4c5">>, legacy |-> FALSE],
    [name |-> <<"p", "s", "i">>, chars |-> <<"\\u03c8">>, legacy |-> FALSE],
    [name |-> <<"p", "u", "n", "c", "s", "p">>, chars |-> <<"\\u2008">>, legacy |-> FALSE],
    [name |-> <<"q", "f", "r">>, chars |-> <<"\\U0001d52e">>, legacy |-> FALSE],
    [name |-> <<"q", "i", "n", "t">>, chars |-> <<"\\u2a0c">>, legacy |-> FALSE],
    [name |-> <<"q", "o", "p", "f">>, chars |-> <<"\\U0001d562">>, legacy |-> FALSE],
    [name |-> <<"q", "p", "r", "i", "m", "e">>, chars |-> <<"\\u2057">>, legacy |-> FALSE],
    [name |-> <<"q", "s", "c", "r">>, chars |-> <<"\\U0001d4c6">>, legacy |-> FALSE],
    [name |-> <<"q", "u", "a", "t", "e", "r", "n", "i", "o", "n", "s">>, chars |-> <<"\\u210d">>, legacy |-> FALSE],
    [name |-> <<"q", "u", "a", "t", "i", "n", "t">>, chars |-> <<"\\u2a16">>, legacy |-> FALSE],
    [name |-> <<"q", "u", "e", "s", "t">>, chars |-> <<"?">>, legacy |-> FALSE],
    [name |-> <<"q", "u", "e", "s", "t", "e", "q">>, chars |-> <<"\\u225f">>, legacy |-> FALSE],
    [name |-> <<"q", "u", "o", "t">>, chars |-> <<"\"">>, legacy |-> TRUE],
    [name |-> <<"r", "A", "a", "r", "r">>, chars |-> <<"\\u21db">>, legacy |-> FALSE],
    [name |-> <<"r", "A", "r", "r">>, chars |-> <<"\\u21d2">>, legacy |-> FALSE],
    [name |-> <<"r", "A", "t", "a", "i", "l">>, chars |-> <<"\\u291c">>, legacy |-> FALSE],
    [name |-> <<"r", "B", "a", "r", "r">>, chars |-> <<"\\u290f">>, legacy |-> FALSE],
    [name |-> <<"r", "H", "a", "r">>, chars |-> <<"\\u2964">>, legacy |-> FALSE],
    [name |-> <<"r", "a", "c", "e">>, chars |-> <<"\\u223d", "\\u0331">>, legacy |-> FALSE],
    [name |-> <<"r", "a", "c", "u", "t", "e">>, chars |-> <<"\\u0155">>, legacy |-> FALSE],
    [name |-> <<"r", "a", "d", "i", "c">>, chars |-> <<"\\u221a">>, legacy |-> FALSE],
    [name |-> <<"r", "a", "e", "m", "p", "t", "y", "v">>, chars |-> <<"\\u29b3">>, legacy |-> FALSE],
    [name |-> <<"r", "a", "n", "g">>, chars |-> <<"\\u27e9">>, legacy |-> FALSE],
    [name |-> <<"r", "a", "n", "g", "d">>, chars |-> <<"\\u2992">>, legacy |-> FALSE],
    [name |-> <<"r", "a", "n", "g", "e">>, chars |-> <<"\\u29a5">>, legacy |-> FALSE],
    [name |-> <<"r", "a", "n", "g", "l", "e">>, chars |-> <<"\\u27e9">>, legacy |-> FALSE],
    [name |-> <<"r", "a", "q", "u", "o">>, chars |-> <<"\\u00bb">>, legacy |-> TRUE],
    [name |-> <<"r", "a", "r", "r">>, chars |-> <<"\\u2192">>, legacy |-> FALSE],
    [name |-> <<"r", "a", "r", "r", "a", "p">>, chars |-> <<"\\u2975">>, legacy |-> FALSE],
    [name |-> <<"r", "a", "r", "r", "b">>, chars |-> <<"\\u21e5">>, legacy |-> FALSE],
    [name |-> <<"r", "a", "r", "r", "b", "f", "s">>, chars |-> <<"\\u2920">>, legacy |-> FALSE],
    [name |-> <<"r", "a", "r", "r", "c">>, chars |-> <<"\\u2933">>, legacy |-> FALSE],
    [name |-> <<"r", "a", "r", "r", "f", "s">>, chars |-> <<"\\u291e">>, legacy |-> FALSE],
    [name |-> <<"r", "a", "r", "r", "h", "k">>, chars |-> <<"\\u21aa">>, legacy |-> FALSE],
    [name |-> <<"r", "a", "r", "r", "l", "p">>, chars |-> <<"\\u21ac">>, legacy |-> FALSE],
    [name |-> <<"r", "a", "r", "r", "p", "l">>, chars |-> <<"\\u2945">>, legacy |-> FALSE],
    [name |-> <<"r", "a", "r", "r", "s", "i", "m">>, chars |-> <<"\\u2974">>, legacy |-> FALSE],
    [name |-> <<"r", "a", "r", "r", "t", "l">>, chars |-> <<"\\u21a3">>, legacy |-> FALSE],
    [name |-> <<"r", "a", "r", "r", "w">>, chars |-> <<"\\u219d">>, legacy |-> FALSE],
    [name |-> <<"r", "a", "t", "a", "i", "l">>, chars |-> <<"\\u291a">>, legacy |-> FALSE],
    [name |-> <<"r", "a", "t", "i", "o">>, chars |-> <<"\\u2236">>, legacy |-> FALSE],
    [name |-> <<"r", "a", "t", "i", "o", "n", "a", "l", "s">>, chars |-> <<"\\u211a">>, legacy |-> FALSE],
    [name |-> <<"r", "b", "a", "r", "r">>, chars |-> <<"\\u290d">>, legacy |-> FALSE],
    [name |-> <<"r", "b", "b", "r", "k">>, chars |-> <<"\\u2773">>, legacy |-> FALSE],
    [name |-> <<"r", "b", "r", "a", "c", "e">>, chars |-> <<"}">>, legacy |-> FALSE],
    [name |-> <<"r", "b", "r", "a", "c", "k">>, chars |-> <<"]">>, legacy |-> FALSE],
    [name |-> <<"r", "b", "r", "k", "e">>, chars |-> <<"\\u298c">>, legacy |-> FALSE],
    [name |-> <<"r", "b", "r", "k", "s", "l", "d">>, chars |-> <<"\\u298e">>, legacy |-> FALSE],
    [name |-> <<"r", "b", "r", "k", "s", "l", "u">>, chars |-> <<"\\u2990">>, legacy |-> FALSE],
    [name |-> <<"r", "c", "a", "r", "o", "n">>, chars |-> <<"\\u0159">>, legacy |-> FALSE],
    [name |-> <<"r", "c", "e", "d", "i", "l">>, chars |-> <<"\\u0157">>, legacy |-> FALSE],
    [name |-> <<"r", "c", "e", "i", "l">>, chars |-> <<"\\u2309">>, legacy |-> FALSE],
    [name |-> <<"r", "c", "u", "b">>, chars |-> <<"}">>, legacy |-> FALSE],
    [name |-> <<"r", "c", "y">>, chars |-> <<"\\u0440">>, legacy |-> FALSE],
    [name |-> <<"r", "d", "c", "a">>, chars |-> <<"\\u2937">>, legacy |-> FALSE],
    [name |-> <<"r", "d", "l", "d", "h", "a", "r">>, chars |-> <<"\\u2969">>, legacy |-> FALSE],
    [name |-> <<"r", "d", "q", "u", "o">>, chars |-> <<"\\u201d">>, legacy |-> FALSE],
    [name |-> <<"r", "d", "q", "u", "o", "r">>, chars |-> <<"\\u201d">>, legacy |-> FALSE],
    [name |-> <<"r", "d", "s", "h">>, chars |-> <<"\\u21b3">>, legacy |-> FALSE],
    [name |-> <<"r", "e", "a", "l">>, chars |-> <<"\\u211c">>, legacy |-> FALSE],
    [name |-> <<"r", "e", "a", "l", "i", "n", "e">>, chars |-> <<"\\u211b">>, legacy |-> FALSE],
    [name |-> <<"r", "e", "a", "l", "p", "a", "r", "t">>, chars |-> <<"\\u211c">>, legacy |-> FALSE],
    [name |-> <<"r", "e", "a", "l", "s">>, chars |-> <<"\\u211d">>, legacy |-> FALSE],
    [name |-> <<"r", "e", "c", "t">>, chars |-> <<"\\u25ad">>, legacy |-> FALSE],
    [name |-> <<"r", "e", "g">>, chars |-> <<"\\u00ae">>, legacy |-> TRUE],
    [name |-> <<"r", "f", "i", "s", "h", "t">>, chars |-> <<"\\u297d">>, legacy |-> FALSE],
    [name |-> <<"r", "f", "l", "o", "o", "r">>, chars |-> <<"\\u230b">>, legacy |-> FALSE],
    [name |-> <<"r", "f", "r">>, chars |-> <<"\\U0001d52f">>, legacy |-> FALSE],
    [name |-> <<"r", "h", "a", "r", "d">>, chars |-> <<"\\u21c1">>, legacy |-> FALSE],
    [name |-> <<"r", "h", "a", "r", "u">>, chars |-> <<"\\u21c0">>, legacy |-> FALSE],
    [name |-> <<"r", "h", "a", "r", "u", "l">>, chars |-> <<"\\u296c">>, legacy |-> FALSE],
    [name |-> <<"r", "h", "o">>, chars |-> <<"\\u03c1">>, legacy |-> FALSE],
    [name |-> <<"r", "h", "o", "v">>, chars |-> <<"\\u03f1">>, legacy |-> FALSE],
    [name |-> <<"r", "i", "g", "h", "t", "a", "r", "r", "o", "w">>, chars |-> <<"\\u2192">>, legacy |-> FALSE],
    [name |-> <<"r", "i", "g", "h", "t", "a", "r", "r", "o", "w", "t", "a", "i", "l">>, chars |-> <<"\\u21a3">>, legacy |-> FALSE],
    [name |-> <<"r", "i", "g", "h", "t", "h", "a", "r", "p", "o", "o", "n", "d", "o", "w", "n">>, chars |-> <<"\\u21c1">>, legacy |-> FALSE],
    [name |-> <<"r", "i", "g", "h", "t", "h", "a", "r", "p", "o", "o", "n", "u", "p">>, chars |-> <<"\\u21c0">>, legacy |-> FALSE],
    [name |-> <<"r", "i", "g", "h", "t", "l", "e", "f", "t", "a", "r", "r", "o", "w", "s">>, chars |-> <<"\\u21c4">>, legacy |-> FALSE],
    [name |-> <<"r", "i", "g", "h", "t", "l", "e", "f", "t", "h", "a", "r", "p", "o", "o", "n", "s">>, chars |-> <<"\\u21cc">>, legacy |-> FALSE],
    [name |-> <<"r", "i", "g", "h", "t", "r", "i", "g", "h", "t", "a", "r", "r", "o", "w", "s">>, chars |-> <<"\\u21c9">>, legacy |-> FALSE],
    [name |-> <<"r", "i", "g", "h", "t", "s", "q", "u", "i", "g", "a", "r", "r", "o", "w">>, chars |-> <<"\\u219d">>, legacy |-> FALSE],
    [name |-> <<"r", "i", "g", "h", "t", "t", "h", "r", "e", "e", "t", "i", "m", "e", "s">>, chars |-> <<"\\u22cc">>, legacy |-> FALSE],
    [name |-> <<"r", "i", "n", "g">>, chars |-> <<"\\u02da">>, legacy |-> FALSE],
    [name |-> <<"r", "i", "s", "i", "n", "g", "d", "o", "t", "s", "e", "q">>, chars |-> <<"\\u2253">>, legacy |-> FALSE],
    [name |-> <<"r", "l", "a", "r", "r">>, chars |-> <<"\\u21c4">>, legacy |-> FALSE],
    [name |-> <<"r", "l", "h", "a", "r">>, chars |-> <<"\\u21cc">>, legacy |-> FALSE],
    [name |-> <<"r", "l", "m">>, chars |-> <<"\\u200f">>, legacy |-> FALSE],
    [name |-> <<"r", "m", "o", "u", "s", "t">>, chars |-> <<"\\u23b1">>, legacy |-> FALSE],
    [name |-> <<"r", "m", "o", "u", "s", "t", "a", "c", "h", "e">>, chars |-> <<"\\u23b1">>, legacy |-> FALSE],
    [name |-> <<"r", "n", "m", "i", "d">>, chars |-> <<"\\u2aee">>, legacy |-> FALSE],
    [name |-> <<"r", "o", "a", "n", "g">>, chars |-> <<"\\u27ed">>, legacy |-> FALSE],
    [name |-> <<"r", "o", "a", "r", "r">>, chars |-> <<"\\u21fe">>, legacy |-> FALSE],
    [name |-> <<"r", "o", "b", "r", "k">>, chars |-> <<"\\u27e7">>, legacy |-> FALSE],
    [name |-> <<"r", "o", "p", "a", "r">>, chars |-> <<"\\u2986">>, legacy |-> FALSE],
    [name |-> <<"r", "o", "p", "f">>, chars |-> <<"\\U0001d563">>, legacy |-> FALSE],
    [name |-> <<"r", "o", "p", "l", "u", "s">>, chars |-> <<"\\u2a2e">>, legacy |-> FALSE],
    [name |-> <<"r", "o", "t", "i", "m", "e", "s">>, chars |-> <<"\\u2a35">>, legacy |-> FALSE],
    [name |-> <<"r", "p", "a", "r">>, chars |-> <<")">>, legacy |-> FALSE],
    [name |-> <<"r", "p", "a", "r", "g", "t">>, chars |-> <<"\\u2994">>, legacy |-> FALSE],
    [name |-> <<"r", "p", "p", "o", "l", "i", "n", "t">>, chars |-> <<"\\u2a12">>, legacy |-> FALSE],
    [name |-> <<"r", "r", "a", "r", "r">>, chars |-> <<"\\u21c9">>, legacy |-> FALSE],
    [name |-> <<"r", "s", "a", "q", "u", "o">>, chars |-> <<"\\u203a">>, legacy |-> FALSE],
    [name |-> <<"r", "s", "c", "r">>, chars |-> <<"\\U0001d4c7">>, legacy |-> FALSE],
    [name |-> <<"r", "s", "h">>, chars |-> <<"\\u21b1">>, legacy |-> FALSE],
    [name |-> <<"r", "s", "q", "b">>, chars |-> <<"]">>, legacy |-> FALSE],
    [name |-> <<"r", "s", "q", "u", "o">>, chars |-> <<"\\u2019">>, legacy |-> FALSE],
    [name |-> <<"r", "s", "q", "u", "o", "r">>, chars |-> <<"\\u2019">>, legacy |-> FALSE],
    [name |-> <<"r", "t", "h", "r", "e", "e">>, chars |-> <<"\\u22cc">>, legacy |-> FALSE],
    [name |-> <<"r", "t", "i", "m", "e", "s">>, chars |-> <<"\\u22ca">>, legacy |-> FALSE],
    [name |-> <<"r", "t", "r", "i">>, chars |-> <<"\\u25b9">>, legacy |-> FALSE],
    [name |-> <<"r", "t", "r", "i", "e">>, chars |-> <<"\\u22b5">>, legacy |-> FALSE],
    [name |-> <<"r", "t", "r", "i", "f">>, chars |-> <<"\\u25b8">>, legacy |-> FALSE],
    [name |-> <<"r", "t", "r", "i", "l", "t", "r", "i">>, chars |-> <<"\\u29ce">>, legacy |-> FALSE],
    [name |-> <<"r", "u", "l", "u", "h", "a", "r">>, chars |-> <<"\\u2968">>, legacy |-> FALSE],
    [name |-> <<"r", "x">>, chars |-> <<"\\u211e">>, legacy |-> FALSE],
    [name |-> <<"s", "a", "c", "u", "t", "e">>, chars |-> <<"\\u015b">>, legacy |-> FALSE],
    [name |-> <<"s", "b", "q", "u", "o">>, chars |-> <<"\\u201a">>, legacy |-> FALSE],
    [name |-> <<"s", "c">>, chars |-> <<"\\u227b">>, legacy |-> FALSE],
    [name |-> <<"s", "c", "E">>, chars |-> <<"\\u2ab4">>, legacy |-> FALSE],
    [name |-> <<"s", "c", "a", "p">>, chars |-> <<"\\u2ab8">>, legacy |-> FALSE],
    [name |-> <<"s", "c", "a", "r", "o", "n">>, chars |-> <<"\\u0161">>, legacy |-> FALSE],
    [name |-> <<"s", "c", "c", "u", "e">>, chars |-> <<"\\u227d">>, legacy |-> FALSE],
    [name |-> <<"s", "c", "e">>, chars |-> <<"\\u2ab0">>, legacy |-> FALSE],
    [name |-> <<"s", "c", "e", "d", "i", "l">>, chars |-> <<"\\u015f">>, legacy |-> FALSE],
    [name |-> <<"s", "c", "i", "r", "c">>, chars |-> <<"\\u015d">>, legacy |-> FALSE],
    [name |-> <<"s", "c", "n", "E">>, chars |-> <<"\\u2ab6">>, legacy |-> FALSE],
    [name |-> <<"s", "c", "n", "a", "p">>, chars |-> <<"\\u2aba">>, legacy |-> FALSE],
    [name |-> <<"s", "c", "n", "s", "i", "m">>, chars |-> <<"\\u22e9">>, legacy |-> FALSE],
    [name |-> <<"s", "c", "p", "o", "l", "i", "n", "t">>, chars |-> <<"\\u2a13">>, legacy |-> FALSE],
    [name |-> <<"s", "c", "s", "i", "m">>, chars |-> <<"\\u227f">>, legacy |-> FALSE],
    [name |-> <<"s", "c", "y">>, chars |-> <<"\\u0441">>, legacy |-> FALSE],
    [name |-> <<"s", "d", "o", "t">>, chars |-> <<"\\u22c5">>, legacy |-> FALSE],
    [name |-> <<"s", "d", "o", "t", "b">>, chars |-> <<"\\u22a1">>, legacy |-> FALSE],
    [name |-> <<"s", "d", "o", "t", "e">>, chars |-> <<"\\u2a66">>, legacy |-> FALSE],
    [name |-> <<"s", "e", "A", "r", "r">>, chars |-> <<"\\u21d8">>, legacy |-> FALSE],
    [name |-> <<"s", "e", "a", "r", "h", "k">>, chars |-> <<"\\u2925">>, legacy |-> FALSE],
    [name |-> <<"s", "e", "a", "r", "r">>, chars |-> <<"\\u2198">>, legacy |-> FALSE],
    [name |-> <<"s", "e", "a", "r", "r", "o", "w">>, chars |-> <<"\\u2198">>, legacy |-> FALSE],
    [name |-> <<"s", "e", "c", "t">>, chars |-> <<"\\u00a7">>, legacy |-> TRUE],
    [name |-> <<"s", "e", "m", "i">>, chars |-> <<";">>, legacy |-> FALSE],
    [name |-> <<"s", "e", "s", "w", "a", "r">>, chars |-> <<"\\u2929">>, legacy |-> FALSE],
    [name |-> <<"s", "e", "t", "m", "i", "n", "u", "s">>, chars |-> <<"\\u2216">>, legacy |-> FALSE],
    [name |-> <<"s", "e", "t", "m", "n">>, chars |-> <<"\\u2216">>, legacy |-> FALSE],
    [name |-> <<"s", "e", "x", "t">>, chars |-> <<"\\u2736">>, legacy |-> FALSE],
    [name |-> <<"s", "f", "r">>, chars |-> <<"\\U0001d530">>, legacy |-> FALSE],
    [name |-> <<"s", "f", "r", "o", "w", "n">>, chars |-> <<"\\u2322">>, legacy |-> FALSE],
    [name |-> <<"s", "h", "a", "r", "p">>, chars |-> <<"\\u266f">>, legacy |-> FALSE],
    [name |-> <<"s", "h", "c", "h", "c", "y">>, chars |-> <<"\\u0449">>, legacy |-> FALSE],
    [name |-> <<"s", "h", "c", "y">>, chars |-> <<"\\u0448">>, legacy |-> FALSE],
    [name |-> <<"s", "h", "o", "r", "t", "m", "i", "d">>, chars |-> <<"\\u2223">>, legacy |-> FALSE],
    [name |-> <<"s", "h", "o", "r", "t", "p", "a", "r", "a", "l", "l", "e", "l">>, chars |-> <<"\\u2225">>, legacy |-> FALSE],
    [name |-> <<"s", "h", "y">>, chars |-> <<"\\u00ad">>, legacy |-> TRUE],
    [name |-> <<"s", "i", "g", "m", "a">>, chars |-> <<"\\u03c3">>, legacy |-> FALSE],
    [name |-> <<"s", "i", "g", "m", "a", "f">>, chars |-> <<"\\u03c2">>, legacy |-> FALSE],
    [name |-> <<"s", "i", "g", "m", "a", "v">>, chars |-> <<"\\u03c2">>, legacy |-> FALSE],
    [name |-> <<"s", "i", "m">>, chars |-> <<"\\u223c">>, legacy |-> FALSE],
    [name |-> <<"s", "i", "m", "d", "o", "t">>, chars |-> <<"\\u2a6a">>, legacy |-> FALSE],
    [name |-> <<"s", "i", "m", "e">>, chars |-> <<"\\u2243">>, legacy |-> FALSE],
    [name |-> <<"s", "i", "m", "e", "q">>, chars |-> <<"\\u2243">>, legacy |-> FALSE],
    [name |-> <<"s", "i", "m", "g">>, chars |-> <<"\\u2a9e">>, legacy |-> FALSE],
    [name |-> <<"s", "i", "m", "g", "E">>, chars |-> <<"\\u2aa0">>, legacy |-> FALSE],
    [name |-> <<"s", "i", "m", "l">>, chars |-> <<"\\u2a9d">>, legacy |-> FALSE],
    [name |-> <<"s", "i", "m", "l", "E">>, chars |-> <<"\\u2a9f">>, legacy |-> FALSE],
    [name |-> <<"s", "i", "m", "n", "e">>, chars |-> <<"\\u2246">>, legacy |-> FALSE],
    [name |-> <<"s", "i", "m", "p", "l", "u", "s">>, chars |-> <<"\\u2a24">>, legacy |-> FALSE],
    [name |-> <<"s", "i", "m", "r", "a", "r", "r">>, chars |-> <<"\\u2972">>, legacy |-> FALSE],
    [name |-> <<"s", "l", "a", "r", "r">>, chars |-> <<"\\u2190">>, legacy |-> FALSE],
    [name |-> <<"s", "m", "a", "l", "l", "s", "e", "t", "m", "i", "n", "u", "s">>, chars |-> <<"\\u2216">>, legacy |-> FALSE],
    [name |-> <<"s", "m", "a", "s", "h", "p">>, chars |-> <<"\\u2a33">>, legacy |-> FALSE],
    [name |-> <<"s", "m", "e", "p", "a", "r", "s", "l">>, chars |-> <<"\\u29e4">>, legacy |-> FALSE],
    [name |-> <<"s", "m", "i", "d">>, chars |-> <<"\\u2223">>, legacy |-> FALSE],
    [name |-> <<"s", "m", "i", "l", "e">>, chars |-> <<"\\u2323">>, legacy |-> FALSE],
    [name |-> <<"s", "m", "t">>, chars |-> <<"\\u2aaa">>, legacy |-> FALSE],
    [name |-> <<"s", "m", "t", "e">>, chars |-> <<"\\u2aac">>, legacy |-> FALSE],
    [name |-> <<"s", "m", "t", "e", "s">>, chars |-> <<"\\u2aac", "\\ufe00">>, legacy |-> FALSE],
    [name |-> <<"s", "o", "f", "t", "c", "y">>, chars |-> <<"\\u044c">>, legacy |-> FALSE],
    [name |-> <<"s", "o", "l">>, chars |-> <<"/">>, legacy |-> FALSE],
    [name |-> <<"s", "o", "l", "b">>, chars |-> <<"\\u29c4">>, legacy |-> FALSE],
    [name |-> <<"s", "o", "l", "b", "a", "r">>, chars |-> <<"\\u233f">>, legacy |-> FALSE],
    [name |-> <<"s", "o", "p", "f">>, chars |-> <<"\\U0001d564">>, legacy |-> FALSE],
    [name |-> <<"s", "p", "a", "d", "e", "s">>, chars |-> <<"\\u2660">>, legacy |-> FALSE],
    [name |-> <<"s", "p", "a", "d", "e", "s", "u", "i", "t">>, chars |-> <<"\\u2660">>, legacy |-> FALSE],
    [name |-> <<"s", "p", "a", "r">>, chars |-> <<"\\u2225">>, legacy |-> FALSE],
    [name |-> <<"s", "q", "c", "a", "p">>, chars |-> <<"\\u2293">>, legacy |-> FALSE],
    [name |-> <<"s", "q", "c", "a", "p", "s">>, chars |-> <<"\\u2293", "\\ufe00">>, legacy |-> FALSE],
    [name |-> <<"s", "q", "c", "u", "p">>, chars |-> <<"\\u2294">>, legacy |-> FALSE],
    [name |-> <<"s", "q", "c", "u", "p", "s">>, chars |-> <<"\\u2294", "\\ufe00">>, legacy |-> FALSE],
    [name |-> <<"s", "q", "s", "u", "b">>, chars |-> <<"\\u228f">>, legacy |-> FALSE],
    [name |-> <<"s", "q", "s", "u", "b", "e">>, chars |-> <<"\\u2291">>, legacy |-> FALSE],
    [name |-> <<"s", "q", "s", "u", "b", "s", "e", "t">>, chars |-> <<"\\u228f">>, legacy |-> FALSE],
    [name |-> <<"s", "q", "s", "u", "b", "s", "e", "t", "e", "q">>, chars |-> <<"\\u2291">>, legacy |-> FALSE],
    [name |-> <<"s", "q", "s", "u", "p">>, chars |-> <<"\\u2290">>, legacy |-> FALSE],
    [name |-> <<"s", "q", "s", "u", "p", "e">>, chars |-> <<"\\u2292">>, legacy |-> FALSE],
    [name |-> <<"s", "q", "s", "u", "p", "s", "e", "t">>, chars |-> <<"\\u2290">>, legacy |-> FALSE],
    [name |-> <<"s", "q", "s", "u", "p", "s", "e", "t", "e", "q">>, chars |-> <<"\\u2292">>, legacy |-> FALSE],
    [name |-> <<"s", "q", "u">>, chars |-> <<"\\u25a1">>, legacy |-> FALSE],
    [name |-> <<"s", "q", "u", "a", "r", "e">>, chars |-> <<"\\u25a1">>, legacy |-> FALSE],
    [name |-> <<"s", "q", "u", "a", "r", "f">>, chars |-> <<"\\u25aa">>, legacy |-> FALSE],
    [name |-> <<"s", "q", "u", "f">>, chars |-> <<"\\u25aa">>, legacy |-> FALSE],
    [name |-> <<"s", "r", "a", "r", "r">>, chars |-> <<"\\u2192">>, legacy |-> FALSE],
    [name |-> <<"s", "s", "c", "r">>, chars |-> <<"\\U0001d4c8">>, legacy |-> FALSE],
    [name |-> <<"s", "s", "e", "t", "m", "n">>, chars |-> <<"\\u2216">>, legacy |-> FALSE],
    [name |-> <<"s", "s", "m", "i", "l", "e">>, chars |-> <<"\\u2323">>, legacy |-> FALSE],
    [name |-> <<"s", "s", "t", "a", "r", "f">>, chars |-> <<"\\u22c6">>, legacy |-> FALSE],
    [name |-> <<"s", "t", "a", "r">>, chars |-> <<"\\u2606">>, legacy |-> FALSE],
    [name |-> <<"s", "t", "a", "r", "f">>, chars |-> <<"\\u2605">>, legacy |-> FALSE],
    [name |-> <<"s", "t", "r", "a", "i", "g", "h", "t", "e", "p", "s", "i", "l", "o", "n">>, chars |-> <<"\\u03f5">>, legacy |-> FALSE],
    [name |-> <<"s", "t", "r", "a", "i", "g", "h", "t", "p", "h", "i">>, chars |-> <<"\\u03d5">>, legacy |-> FALSE],
    [name |-> <<"s", "t", "r", "n", "s">>, chars |-> <<"\\u00af">>, legacy |-> FALSE],
    [name |-> <<"s", "u", "b">>, chars |-> <<"\\u2282">>, legacy |-> FALSE],
    [name |-> <<"s", "u", "b", "E">>, chars |-> <<"\\u2ac5">>, legacy |-> FALSE],
    [name |-> <<"s", "u", "b", "d", "o", "t">>, chars |-> <<"\\u2abd">>, legacy |-> FALSE],
    [name |-> <<"s", "u", "b", "e">>, chars |-> <<"\\u2286">>, legacy |-> FALSE],
    [name |-> <<"s", "u", "b", "e", "d", "o", "t">>, chars |-> <<"\\u2ac3">>, legacy |-> FALSE],
    [name |-> <<"s", "u", "b", "m", "u", "l", "t">>, chars |-> <<"\\u2ac1">>, legacy |-> FALSE],
    [name |-> <<"s", "u", "b", "n", "E">>, chars |-> <<"\\u2acb">>, legacy |-> FALSE],
    [name |-> <<"s", "u", "b", "n", "e">>, chars |-> <<"\\u228a">>, legacy |-> FALSE],
    [name |-> <<"s", "u", "b", "p", "l", "u", "s">>, chars |-> <<"\\u2abf">>, legacy |-> FALSE],
    [name |-> <<"s", "u", "b", "r", "a", "r", "r">>, chars |-> <<"\\u2979">>, legacy |-> FALSE],
    [name |-> <<"s", "u", "b", "s", "e", "t">>, chars |-> <<"\\u2282">>, legacy |-> FALSE],
    [name |-> <<"s", "u", "b", "s", "e", "t", "e", "q">>, chars |-> <<"\\u2286">>, legacy |-> FALSE],
    [name |-> <<"s", "u", "b", "s", "e", "t", "e", "q", "q">>, chars |-> <<"\\u2ac5">>, legacy |-> FALSE],
    [name |-> <<"s", "u", "b", "s", "e", "t", "n", "e", "q">>, chars |-> <<"\\u228a">>, legacy |-> FALSE],
    [name |-> <<"s", "u", "b", "s", "e", "t", "n", "e", "q", "q">>, chars |-> <<"\\u2acb">>, legacy |-> FALSE],
    [name |-> <<"s", "u", "b", "s", "i", "m">>, chars |-> <<"\\u2ac7">>, legacy |-> FALSE],
    [name |-> <<"s", "u", "b", "s", "u", "b">>, chars |-> <<"\\u2ad5">>, legacy |-> FALSE],
    [name |-> <<"s", "u", "b", "s", "u", "p">>, chars |-> <<"\\u2ad3">>, legacy |-> FALSE],
    [name |-> <<"s", "u", "c", "c">>, chars |-> <<"\\u227b">>, legacy |-> FALSE],
    [name |-> <<"s", "u", "c", "c", "a", "p", "p", "r", "o", "x">>, chars |-> <<"\\u2ab8">>, legacy |-> FALSE],
    [name |-> <<"s", "u", "c", "c", "c", "u", "r", "l", "y", "e", "q">>, chars |-> <<"\\u227d">>, legacy |-> FALSE],
    [name |-> <<"s", "u", "c", "c", "e", "q">>, chars |-> <<"\\u2ab0">>, legacy |-> FALSE],
    [name |-> <<"s", "u", "c", "c", "n", "a", "p", "p", "r", "o", "x">>, chars |-> <<"\\u2aba">>, legacy |-> FALSE],
    [name |-> <<"s", "u", "c", "c", "n", "e", "q", "q">>, chars |-> <<"\\u2ab6">>, legacy |-> FALSE],
    [name |-> <<"s", "u", "c", "c", "n", "s", "i", "m">>, chars |-> <<"\\u22e9">>, legacy |-> FALSE],
    [name |-> <<"s", "u", "c", "c", "s", "i", "m">>, chars |-> <<"\\u227f">>, legacy |-> FALSE],
    [name |-> <<"s", "u", "m">>, chars |-> <<"\\u2211">>, legacy |-> FALSE],
    [name |-> <<"s", "u", "n", "g">>, chars |-> <<"\\u266a">>, legacy |-> FALSE],
    [name |-> <<"s", "u", "p">>, chars |-> <<"\\u2283">>, legacy |-> FALSE],
    [name |-> <<"s", "u", "p", "1">>, chars |-> <<"\\u00b9">>, legacy |-> TRUE],
    [name |-> <<"s", "u", "p", "2">>, chars |-> <<"\\u00b2">>, legacy |-> TRUE],
    [name |-> <<"s", "u", "p", "3">>, chars |-> <<"\\u00b3">>, legacy |-> TRUE],
    [name |-> <<"s", "u", "p", "E">>, chars |-> <<"\\u2ac6">>, legacy |-> FALSE],
    [name |-> <<"s", "u", "p", "d", "o", "t">>, chars |-> <<"\\u2abe">>, legacy |-> FALSE],
    [name |-> <<"s", "u", "p", "d", "s", "u", "b">>, chars |-> <<"\\u2ad8">>, legacy |-> FALSE],
    [name |-> <<"s", "u", "p", "e">>, chars |-> <<"\\u2287">>, legacy |-> FALSE],
    [name |-> <<"s", "u", "p", "e", "d", "o", "t">>, chars |-> <<"\\u2ac4">>, legacy |-> FALSE],
    [name |-> <<"s", "u", "p", "h", "s", "o", "l">>, chars |-> <<"\\u27c9">>, legacy |-> FALSE],
    [name |-> <<"s", "u", "p", "h", "s", "u", "b">>, chars |-> <<"\\u2ad7">>, legacy |-> FALSE],
    [name |-> <<"s", "u", "p", "l", "a", "r", "r">>, chars |-> <<"\\u297b">>, legacy |-> FALSE],
    [name |-> <<"s", "u", "p", "m", "u", "l", "t">>, chars |-> <<"\\u2ac2">>, legacy |-> FALSE],
    [name |-> <<"s", "u", "p", "n", "E">>, chars |-> <<"\\u2acc">>, legacy |-> FALSE],
    [name |-> <<"s", "u", "p", "n", "e">>, chars |-> <<"\\u228b">>, legacy |-> FALSE],
    [name |-> <<"s", "u", "p", "p", "l", "u", "s">>, chars |-> <<"\\u2ac0">>, legacy |-> FALSE],
    [name |-> <<"s", "u", "p", "s", "e", "t">>, chars |-> <<"\\u2283">>, legacy |-> FALSE],
    [name |-> <<"s", "u", "p", "s", "e", "t", "e", "q">>, chars |-> <<"\\u2287">>, legacy |-> FALSE],
    [name |-> <<"s", "u", "p", "s", "e", "t", "e", "q", "q">>, chars |-> <<"\\u2ac6">>, legacy |-> FALSE],
    [name |-> <<"s", "u", "p", "s", "e", "t", "n", "e", "q">>, chars |-> <<"\\u228b">>, legacy |-> FALSE],
    [name |-> <<"s", "u", "p", "s", "e", "t", "n", "e", "q", "q">>, chars |-> <<"\\u2acc">>, legacy |-> FALSE],
    [name |-> <<"s", "u", "p", "s", "i", "m">>, chars |-> <<"\\u2ac8">>, legacy |-> FALSE],
    [name |-> <<"s", "u", "p", "s", "u", "b">>, chars |-> <<"\\u2ad4">>, legacy |-> FALSE],
    [name |-> <<"s", "u", "p", "s", "u", "p">>, chars |-> <<"\\u2ad6">>, legacy |-> FALSE],
    [name |-> <<"s", "w", "A", "r", "r">>, chars |-> <<"\\u21d9">>, legacy |-> FALSE],
    [name |-> <<"s", "w", "a", "r", "h", "k">>, chars |-> <<"\\u2926">>, legacy |-> FALSE],
    [name |-> <<"s", "w", "a", "r", "r">>, chars |-> <<"\\u2199">>, legacy |-> FALSE],
    [name |-> <<"s", "w", "a", "r", "r", "o", "w">>, chars |-> <<"\\u2199">>, legacy |-> FALSE],
    [name |-> <<"s", "w", "n", "w", "a", "r">>, chars |-> <<"\\u292a">>, legacy |-> FALSE],
    [name |-> <<"s", "z", "l", "i", "g">>, chars |-> <<"\\u00df">>, legacy |-> TRUE],
    [name |-> <<"t", "a", "r", "g", "e", "t">>, chars |-> <<"\\u2316">>, legacy |-> FALSE],
    [name |-> <<"t", "a", "u">>, chars |-> <<"\\u03c4">>, legacy |-> FALSE],
    [name |-> <<"t", "b", "r", "k">>, chars |-> <<"\\u23b4">>, legacy |-> FALSE],
    [name |-> <<"t", "c", "a", "r", "o", "n">>, chars |-> <<"\\u0165">>, legacy |-> FALSE],
    [name |-> <<"t", "c", "e", "d", "i", "l">>, chars |-> <<"\\u0163">>, legacy |-> FALSE],
    [name |-> <<"t", "c", "y">>, chars |-> <<"\\u0442">>, legacy |-> FALSE],
    [name |-> <<"t", "d", "o", "t">>, chars |-> <<"\\u20db">>, legacy |-> FALSE],
    [name |-> <<"t", "e", "l", "r", "e", "c">>, chars |-> <<"\\u2315">>, legacy |-> FALSE],
    [name |-> <<"t", "f", "r">>, chars |-> <<"\\U0001d531">>, legacy |-> FALSE],
    [name |-> <<"t", "h", "e", "r", "e", "4">>, chars |-> <<"\\u2234">>, legacy |-> FALSE],
    [name |-> <<"t", "h", "e", "r", "e", "f", "o", "r", "e">>, chars |-> <<"\\u2234">>, legacy |-> FALSE],
    [name |-> <<"t", "h", "e", "t", "a">>, chars |-> <<"\\u03b8">>, legacy |-> FALSE],
    [name |-> <<"t", "h", "e", "t", "a", "s", "y", "m">>, chars |-> <<"\\u03d1">>, legacy |-> FALSE],
    [name |-> <<"t", "h", "e", "t", "a", "v">>, chars |-> <<"\\u03d1">>, legacy |-> FALSE],
    [name |-> <<"t", "h", "i", "c", "k", "a", "p", "p", "r", "o", "x">>, chars |-> <<"\\u2248">>, legacy |-> FALSE],
    [name |-> <<"t", "h", "i", "c", "k", "s", "i", "m">>, chars |-> <<"\\u223c">>, legacy |-> FALSE],
    [name |-> <<"t", "h", "i", "n", "s", "p">>, chars |-> <<"\\u2009">>, legacy |-> FALSE],
    [name |-> <<"t", "h", "k", "a", "p">>, chars |-> <<"\\u2248">>, legacy |-> FALSE],
    [name |-> <<"t", "h", "k", "s", "i", "m">>, chars |-> <<"\\u223c">>, legacy |-> FALSE],
    [name |-> <<"t", "h", "o", "r", "n">>, chars |-> <<"\\u00fe">>, legacy |-> TRUE],
    [name |-> <<"t", "i", "l", "d", "e">>, chars |-> <<"\\u02dc">>, legacy |-> FALSE],
    [name |-> <<"t", "i", "m", "e", "s">>, chars |-> <<"\\u00d7">>, legacy |-> TRUE],
    [name |-> <<"t", "i", "m", "e", "s", "b">>, chars |-> <<"\\u22a0">>, legacy |-> FALSE],
    [name |-> <<"t", "i", "m", "e", "s", "b", "a", "r">>, chars |-> <<"\\u2a31">>, legacy |-> FALSE],
    [name |-> <<"t", "i", "m", "e", "s", "d">>, chars |-> <<"\\u2a30">>, legacy |-> FALSE],
    [name |-> <<"t", "i", "n", "t">>, chars |-> <<"\\u222d">>, legacy |-> FALSE],
    [name |-> <<"t", "o", "e", "a">>, chars |-> <<"\\u2928">>, legacy |-> FALSE],
    [name |-> <<"t", "o", "p">>, chars |-> <<"\\u22a4">>, legacy |-> FALSE],
    [name |-> <<"t", "o", "p", "b", "o", "t">>, chars |-> <<"\\u2336">>, legacy |-> FALSE],
    [name |-> <<"t", "o", "p", "c", "i", "r">>, chars |-> <<"\\u2af1">>, legacy |-> FALSE],
    [name |-> <<"t", "o", "p", "f">>, chars |-> <<"\\U0001d565">>, legacy |-> FALSE],
    [name |-> <<"t", "o", "p", "f", "o", "r", "k">>, chars |-> <<"\\u2ada">>, legacy |-> FALSE],
    [name |-> <<"t", "o", "s", "a">>, chars |-> <<"\\u2929">>, legacy |-> FALSE],
    [name |-> <<"t", "p", "r", "i", "m", "e">>, chars |-> <<"\\u2034">>, legacy |-> FALSE],
    [name |-> <<"t", "r", "a", "d", "e">>, chars |-> <<"\\u2122">>, legacy |-> FALSE],
    [name |-> <<"t", "r", "i", "a", "n", "g", "l", "e">>, chars |-> <<"\\u25b5">>, legacy |-> FALSE],
    [name |-> <<"t", "r", "i", "a", "n", "g", "l", "e", "d", "o", "w", "n">>, chars |-> <<"\\u25bf">>, legacy |-> FALSE],
    [name |-> <<"t", "r", "i", "a", "n", "g", "l", "e", "l", "e", "f", "t">>, chars |-> <<"\\u25c3">>, legacy |-> FALSE],
    [name |-> <<"t", "r", "i", "a", "n", "g", "l", "e", "l", "e", "f", "t", "e", "q">>, chars |-> <<"\\u22b4">>, legacy |-> FALSE],
    [name |-> <<"t", "r", "i", "a", "n", "g", "l", "e", "q">>, chars |-> <<"\\u225c">>, legacy |-> FALSE],
    [name |-> <<"t", "r", "i", "a", "n", "g", "l", "e", "r", "i", "g", "h", "t">>, chars |-> <<"\\u25b9">>, legacy |-> FALSE],
    [name |-> <<"t", "r", "i", "a", "n", "g", "l", "e", "r", "i", "g", "h", "t", "e", "q">>, chars |-> <<"\\u22b5">>, legacy |-> FALSE],
    [name |-> <<"t", "r", "i", "d", "o", "t">>, chars |-> <<"\\u25ec">>, legacy |-> FALSE],
    [name |-> <<"t", "r", "i", "e">>, chars |-> <<"\\u225c">>, legacy |-> FALSE],
    [name |-> <<"t", "r", "i", "m", "i", "n", "u", "s">>, chars |-> <<"\\u2a3a">>, legacy |-> FALSE],
    [name |-> <<"t", "r", "i", "p", "l", "u", "s">>, chars |-> <<"\\u2a39">>, legacy |-> FALSE],
    [name |-> <<"t", "r", "i", "s", "b">>, chars |-> <<"\\u29cd">>, legacy |-> FALSE],
    [name |-> <<"t", "r", "i", "t", "i", "m", "e">>, chars |-> <<"\\u2a3b">>, legacy |-> FALSE],
    [name |-> <<"t", "r", "p", "e", "z", "i", "u", "m">>, chars |-> <<"\\u23e2">>, legacy |-> FALSE],
    [name |-> <<"t", "s", "c", "r">>, chars |-> <<"\\U0001d4c9">>, legacy |-> FALSE],
    [name |-> <<"t", "s", "c", "y">>, chars |-> <<"\\u0446">>, legacy |-> FALSE],
    [name |-> <<"t", "s", "h", "c", "y">>, chars |-> <<"\\u045b">>, legacy |-> FALSE],
    [name |-> <<"t", "s", "t", "r", "o", "k">>, chars |-> <<"\\u0167">>, legacy |-> FALSE],
    [name |-> <<"t", "w", "i", "x", "t">>, chars |-> <<"\\u226c">>, legacy |-> FALSE],
    [name |-> <<"t", "w", "o", "h", "e", "a", "d", "l", "e", "f", "t", "a", "r", "r", "o", "w">>, chars |-> <<"\\u219e">>, legacy |-> FALSE],
    [name |-> <<"t", "w", "o", "h", "e", "a", "d", "r", "i", "g", "h", "t", "a", "r", "r", "o", "w">>, chars |-> <<"\\u21a0">>, legacy |-> FALSE],
    [name |-> <<"u", "A", "r", "r">>, chars |-> <<"\\u21d1">>, legacy |-> FALSE],
    [name |-> <<"u", "H", "a", "r">>, chars |-> <<"\\u2963">>, legacy |-> FALSE],
    [name |-> <<"u", "a", "c", "u", "t", "e">>, chars |-> <<"\\u00fa">>, legacy |-> TRUE],
    [name |-> <<"u", "a", "r", "r">>, chars |-> <<"\\u2191">>, legacy |-> FALSE],
    [name |-> <<"u", "b", "r", "c", "y">>, chars |-> <<"\\u045e">>, legacy |-> FALSE],
    [name |-> <<"u", "b", "r", "e", "v", "e">>, chars |-> <<"\\u016d">>, legacy |-> FALSE],
    [name |-> <<"u", "c", "i", "r", "c">>, chars |-> <<"\\u00fb">>, legacy |-> TRUE],
    [name |-> <<"u", "c", "y">>, chars |-> <<"\\u0443">>, legacy |-> FALSE],
    [name |-> <<"u", "d", "a", "r", "r">>, chars |-> <<"\\u21c5">>, legacy |-> FALSE],
    [name |-> <<"u", "d", "b", "l", "a", "c">>, chars |-> <<"\\u0171">>, legacy |-> FALSE],
    [name |-> <<"u", "d", "h", "a", "r">>, chars |-> <<"\\u296e">>, legacy |-> FALSE],
    [name |-> <<"u", "f", "i", "s", "h", "t">>, chars |-> <<"\\u297e">>, legacy |-> FALSE],
    [name |-> <<"u", "f", "r">>, chars |-> <<"\\U0001d532">>, legacy |-> FALSE],
    [name |-> <<"u", "g", "r", "a", "v", "e">>, chars |-> <<"\\u00f9">>, legacy |-> TRUE],
    [name |-> <<"u", "h", "a", "r", "l">>, chars |-> <<"\\u21bf">>, legacy |-> FALSE],
    [name |-> <<"u", "h", "a", "r", "r">>, chars |-> <<"\\u21be">>, legacy |-> FALSE],
    [name |-> <<"u", "h", "b", "l", "k">>, chars |-> <<"\\u2580">>, legacy |-> FALSE],
    [name |-> <<"u", "l", "c", "o", "r", "n">>, chars |-> <<"\\u231c">>, legacy |-> FALSE],
    [name |-> <<"u", "l", "c", "o", "r", "n", "e", "r">>, chars |-> <<"\\u231c">>, legacy |-> FALSE],
    [name |-> <<"u", "l", "c", "r", "o", "p">>, chars |-> <<"\\u230f">>, legacy |-> FALSE],
    [name |-> <<"u", "l", "t", "r", "i">>, chars |-> <<"\\u25f8">>, legacy |-> FALSE],
    [name |-> <<"u", "m", "a", "c", "r">>, chars |-> <<"\\u016b">>, legacy |-> FALSE],
    [name |-> <<"u", "m", "l">>, chars |-> <<"\\u00a8">>, legacy |-> TRUE],
    [name |-> <<"u", "o", "g", "o", "n">>, chars |-> <<"\\u0173">>, legacy |-> FALSE],
    [name |-> <<"u", "o", "p", "f">>, chars |-> <<"\\U0001d566">>, legacy |-> FALSE],
    [name |-> <<"u", "p", "a", "r", "r", "o", "w">>, chars |-> <<"\\u2191">>, legacy |-> FALSE],
    [name |-> <<"u", "p", "d", "o", "w", "n", "a", "r", "r", "o", "w">>, chars |-> <<"\\u2195">>, legacy |-> FALSE],
    [name |-> <<"u", "p", "h", "a", "r", "p", "o", "o", "n", "l", "e", "f", "t">>, chars |-> <<"\\u21bf">>, legacy |-> FALSE],
    [name |-> <<"u", "p", "h", "a", "r", "p", "o", "o", "n", "r", "i", "g", "h", "t">>, chars |-> <<"\\u21be">>, legacy |-> FALSE],
    [name |-> <<"u", "p", "l", "u", "s">>, chars |-> <<"\\u228e">>, legacy |-> FALSE],
    [name |-> <<"u", "p", "s", "i">>, chars |-> <<"\\u03c5">>, legacy |-> FALSE],
    [name |-> <<"u", "p", "s", "i", "h">>, chars |-> <<"\\u03d2">>, legacy |-> FALSE],
    [name |-> <<"u", "p", "s", "i", "l", "o", "n">>, chars |-> <<"\\u03c5">>, legacy |-> FALSE],
    [name |-> <<"u", "p", "u", "p", "a", "r", "r", "o", "w", "s">>, chars |-> <<"\\u21c8">>, legacy |-> FALSE],
    [name |-> <<"u", "r", "c", "o", "r", "n">>, chars |-> <<"\\u231d">>, legacy |-> FALSE],
    [name |-> <<"u", "r", "c", "o", "r", "n", "e", "r">>, chars |-> <<"\\u231d">>, legacy |-> FALSE],
    [name |-> <<"u", "r", "c", "r", "o", "p">>, chars |-> <<"\\u230e">>, legacy |-> FALSE],
    [name |-> <<"u", "r", "i", "n", "g">>, chars |-> <<"\\u016f">>, legacy |-> FALSE],
    [name |-> <<"u", "r", "t", "r", "i">>, chars |-> <<"\\u25f9">>, legacy |-> FALSE],
    [name |-> <<"u", "s", "c", "r">>, chars |-> <<"\\U0001d4ca">>, legacy |-> FALSE],
    [name |-> <<"u", "t", "d", "o", "t">>, chars |-> <<"\\u22f0">>, legacy |-> FALSE],
    [name |-> <<"u", "t", "i", "l", "d", "e">>, chars |-> <<"\\u0169">>, legacy |-> FALSE],
    [name |-> <<"u", "t", "r", "i">>, chars |-> <<"\\u25b5">>, legacy |-> FALSE],
    [name |-> <<"u", "t", "r", "i", "f">>, chars |-> <<"\\u25b4">>, legacy |-> FALSE],
    [name |-> <<"u", "u", "a", "r", "r">>, chars |-> <<"\\u21c8">>, legacy |-> FALSE],
    [name |-> <<"u", "u", "m", "l">>, chars |-> <<"\\u00fc">>, legacy |-> TRUE],
    [name |-> <<"u", "w", "a", "n", "g", "l", "e">>, chars |-> <<"\\u29a7">>, legacy |-> FALSE],
    [name |-> <<"v", "A", "r", "r">>, chars |-> <<"\\u21d5">>, legacy |-> FALSE],
    [name |-> <<"v", "B", "a", "r">>, chars |-> <<"\\u2ae8">>, legacy |-> FALSE],
    [name |-> <<"v", "B", "a", "r", "v">>, chars |-> <<"\\u2ae9">>, legacy |-> FALSE],
    [name |-> <<"v", "D", "a", "s", "h">>, chars |-> <<"\\u22a8">>, legacy |-> FALSE],
    [name |-> <<"v", "a", "n", "g", "r", "t">>, chars |-> <<"\\u299c">>, legacy |-> FALSE],
    [name |-> <<"v", "a", "r", "e", "p", "s", "i", "l", "o", "n">>, chars |-> <<"\\u03f5">>, legacy |-> FALSE],
    [name |-> <<"v", "a", "r", "k", "a", "p", "p", "a">>, chars |-> <<"\\u03f0">>, legacy |-> FALSE],
    [name |-> <<"v", "a", "r", "n", "o", "t", "h", "i", "n", "g">>, chars |-> <<"\\u2205">>, legacy |-> FALSE],
    [name |-> <<"v", "a", "r", "p", "h", "i">>, chars |-> <<"\\u03d5">>, legacy |-> FALSE],
    [name |-> <<"v", "a", "r", "p", "i">>, chars |-> <<"\\u03d6">>, legacy |-> FALSE],
    [name |-> <<"v", "a", "r", "p", "r", "o", "p", "t", "o">>, chars |-> <<"\\u221d">>, legacy |-> FALSE],
    [name |-> <<"v", "a", "r", "r">>, chars |-> <<"\\u2195">>, legacy |-> FALSE],
    [name |-> <<"v", "a", "r", "r", "h", "o">>, chars |-> <<"\\u03f1">>, legacy |-> FALSE],
    [name |-> <<"v", "a", "r", "s", "i", "g", "m", "a">>, chars |-> <<"\\u03c2">>, legacy |-> FALSE],
    [name |-> <<"v", "a", "r", "s", "u", "b", "s", "e", "t", "n", "e", "q">>, chars |-> <<"\\u228a", "\\ufe00">>, legacy |-> FALSE],
    [name |-> <<"v", "a", "r", "s", "u", "b", "s", "e", "t", "n", "e", "q", "q">>, chars |-> <<"\\u2acb", "\\ufe00">>, legacy |-> FALSE],
    [name |-> <<"v", "a", "r", "s", "u", "p", "s", "e", "t", "n", "e", "q">>, chars |-> <<"\\u228b", "\\ufe00">>, legacy |-> FALSE],
    [name |-> <<"v", "a", "r", "s", "u", "p", "s", "e", "t", "n", "e", "q", "q">>, chars |-> <<"\\u2acc", "\\ufe00">>, legacy |-> FALSE],
    [name |-> <<"v", "a", "r", "t", "h", "e", "t", "a">>, chars |-> <<"\\u03d1">>, legacy |-> FALSE],
    [name |-> <<"v", "a", "r", "t", "r", "i", "a", "n", "g", "l", "e", "l", "e", "f", "t">>, chars |-> <<"\\u22b2">>, legacy |-> FALSE],
    [name |-> <<"v", "a", "r", "t", "r", "i", "a", "n", "g", "l", "e", "r", "i", "g", "h", "t">>, chars |-> <<"\\u22b3">>, legacy |-> FALSE],
    [name |-> <<"v", "c", "y">>, chars |-> <<"\\u0432">>, legacy |-> FALSE],
    [name |-> <<"v", "d", "a", "s", "h">>, chars |-> <<"\\u22a2">>, legacy |-> FALSE],
    [name |-> <<"v", "e", "e">>, chars |-> <<"\\u2228">>, legacy |-> FALSE],
    [name |-> <<"v", "e", "e", "b", "a", "r">>, chars |-> <<"\\u22bb">>, legacy |-> FALSE],
    [name |-> <<"v", "e", "e", "e", "q">>, chars |-> <<"\\u225a">>, legacy |-> FALSE],
    [name |-> <<"v", "e", "l", "l", "i", "p">>, chars |-> <<"\\u22ee">>, legacy |-> FALSE],
    [name |-> <<"v", "e", "r", "b", "a", "r">>, chars |-> <<"|">>, legacy |-> FALSE],
    [name |-> <<"v", "e", "r", "t">>, chars |-> <<"|">>, legacy |-> FALSE],
    [name |-> <<"v", "f", "r">>, chars |-> <<"\\U0001d533">>, legacy |-> FALSE],
    [name |-> <<"v", "l", "t", "r", "i">>, chars |-> <<"\\u22b2">>, legacy |-> FALSE],
    [name |-> <<"v", "n", "s", "u", "b">>, chars |-> <<"\\u2282", "\\u20d2">>, legacy |-> FALSE],
    [name |-> <<"v", "n", "s", "u", "p">>, chars |-> <<"\\u2283", "\\u20d2">>, legacy |-> FALSE],
    [name |-> <<"v", "o", "p", "f">>, chars |-> <<"\\U0001d567">>, legacy |-> FALSE],
    [name |-> <<"v", "p", "r", "o", "p">>, chars |-> <<"\\u221d">>, legacy |-> FALSE],
    [name |-> <<"v", "r", "t", "r", "i">>, chars |-> <<"\\u22b3">>, legacy |-> FALSE],
    [name |-> <<"v", "s", "c", "r">>, chars |-> <<"\\U0001d4cb">>, legacy |-> FALSE],
    [name |-> <<"v", "s", "u", "b", "n", "E">>, chars |-> <<"\\u2acb", "\\ufe00">>, legacy |-> FALSE],
    [name |-> <<"v", "s", "u", "b", "n", "e">>, chars |-> <<"\\u228a", "\\ufe00">>, legacy |-> FALSE],
    [name |-> <<"v", "s", "u", "p", "n", "E">>, chars |-> <<"\\u2acc", "\\ufe00">>, legacy |-> FALSE],
    [name |-> <<"v", "s", "u", "p", "n", "e">>, chars |-> <<"\\u228b", "\\ufe00">>, legacy |-> FALSE],
    [name |-> <<"v", "z", "i", "g", "z", "a", "g">>, chars |-> <<"\\u299a">>, legacy |-> FALSE],
    [name |-> <<"w", "c", "i", "r", "c">>, chars |-> <<"\\u0175">>, legacy |-> FALSE],
    [name |-> <<"w", "e", "d", "b", "a", "r">>, chars |-> <<"\\u2a5f">>, legacy |-> FALSE],
    [name |-> <<"w", "e", "d", "g", "e">>, chars |-> <<"\\u2227">>, legacy |-> FALSE],
    [name |-> <<"w", "e", "d", "g", "e", "q">>, chars |-> <<"\\u2259">>, legacy |-> FALSE],
    [name |-> <<"w", "e", "i", "e", "r", "p">>, chars |-> <<"\\u2118">>, legacy |-> FALSE],
    [name |-> <<"w", "f", "r">>, chars |-> <<"\\U0001d534">>, legacy |-> FALSE],
    [name |-> <<"w", "o", "p", "f">>, chars |-> <<"\\U0001d568">>, legacy |-> FALSE],
    [name |-> <<"w", "p">>, chars |-> <<"\\u2118">>, legacy |-> FALSE],
    [name |-> <<"w", "r">>, chars |-> <<"\\u2240">>, legacy |-> FALSE],
    [name |-> <<"w", "r", "e", "a", "t", "h">>, chars |-> <<"\\u2240">>, legacy |-> FALSE],
    [name |-> <<"w", "s", "c", "r">>, chars |-> <<"\\U0001d4cc">>, legacy |-> FALSE],
    [name |-> <<"x", "c", "a", "p">>, chars |-> <<"\\u22c2">>, legacy |-> FALSE],
    [name |-> <<"x", "c", "i", "r", "c">>, chars |-> <<"\\u25ef">>, legacy |-> FALSE],
    [name |-> <<"x", "c", "u", "p">>, chars |-> <<"\\u22c3">>, legacy |-> FALSE],
    [name |-> <<"x", "d", "t", "r", "i">>, chars |-> <<"\\u25bd">>, legacy |-> FALSE],
    [name |-> <<"x", "f", "r">>, chars |-> <<"\\U0001d535">>, legacy |-> FALSE],
    [name |-> <<"x", "h", "A", "r", "r">>, chars |-> <<"\\u27fa">>, legacy |-> FALSE],
    [name |-> <<"x", "h", "a", "r", "r">>, chars |-> <<"\\u27f7">>, legacy |-> FALSE],
    [name |-> <<"x", "i">>, chars |-> <<"\\u03be">>, legacy |-> FALSE],
    [name |-> <<"x", "l", "A", "r", "r">>, chars |-> <<"\\u27f8">>, legacy |-> FALSE],
    [name |-> <<"x", "l", "a", "r", "r">>, chars |-> <<"\\u27f5">>, legacy |-> FALSE],
    [name |-> <<"x", "m", "a", "p">>, chars |-> <<"\\u27fc">>, legacy |-> FALSE],
    [name |-> <<"x", "n", "i", "s">>, chars |-> <<"\\u22fb">>, legacy |-> FALSE],
    [name |-> <<"x", "o", "d", "o", "t">>, chars |-> <<"\\u2a00">>, legacy |-> FALSE],
    [name |-> <<"x", "o", "p", "f">>, chars |-> <<"\\U0001d569">>, legacy |-> FALSE],
    [name |-> <<"x", "o", "p", "l", "u", "s">>, chars |-> <<"\\u2a01">>, legacy |-> FALSE],
    [name |-> <<"x", "o", "t", "i", "m", "e">>, chars |-> <<"\\u2a02">>, legacy |-> FALSE],
    [name |-> <<"x", "r", "A", "r", "r">>, chars |-> <<"\\u27f9">>, legacy |-> FALSE],
    [name |-> <<"x", "r", "a", "r", "r">>, chars |-> <<"\\u27f6">>, legacy |-> FALSE],
    [name |-> <<"x", "s", "c", "r">>, chars |-> <<"\\U0001d4cd">>, legacy |-> FALSE],
    [name |-> <<"x", "s", "q", "c", "u", "p">>, chars |-> <<"\\u2a06">>, legacy |-> FALSE],
    [name |-> <<"x", "u", "p", "l", "u", "s">>, chars |-> <<"\\u2a04">>, legacy |-> FALSE],
    [name |-> <<"x", "u", "t", "r", "i">>, chars |-> <<"\\u25b3">>, legacy |-> FALSE],
    [name |-> <<"x", "v", "e", "e">>, chars |-> <<"\\u22c1">>, legacy |-> FALSE],
    [name |-> <<"x", "w", "e", "d", "g", "e">>, chars |-> <<"\\u22c0">>, legacy |-> FALSE],
    [name |-> <<"y", "a", "c", "u", "t", "e">>, chars |-> <<"\\u00fd">>, legacy |-> TRUE],
    [name |-> <<"y", "a", "c", "y">>, chars |-> <<"\\u044f">>, legacy |-> FALSE],
    [name |-> <<"y", "c", "i", "r", "c">>, chars |-> <<"\\u0177">>, legacy |-> FALSE],
    [name |-> <<"y", "c", "y">>, chars |-> <<"\\u044b">>, legacy |-> FALSE],
    [name |-> <<"y", "e", "n">>, chars |-> <<"\\u00a5">>, legacy |-> TRUE],
    [name |-> <<"y", "f", "r">>, chars |-> <<"\\U0001d536">>, legacy |-> FALSE],
    [name |-> <<"y", "i", "c", "y">>, chars |-> <<"\\u0457">>, legacy |-> FALSE],
    [name |-> <<"y", "o", "p", "f">>, chars |-> <<"\\U0001d56a">>, legacy |-> FALSE],
    [name |-> <<"y", "s", "c", "r">>, chars |-> <<"\\U0001d4ce">>, legacy |-> FALSE],
    [name |-> <<"y", "u", "c", "y">>, chars |-> <<"\\u044e">>, legacy |-> FALSE],
    [name |-> <<"y", "u", "m", "l">>, chars |-> <<"\\u00ff">>, legacy |-> TRUE],
    [name |-> <<"z", "a", "c", "u", "t", "e">>, chars |-> <<"\\u017a">>, legacy |-> FALSE],
    [name |-> <<"z", "c", "a", "r", "o", "n">>, chars |-> <<"\\u017e">>, legacy |-> FALSE],
    [name |-> <<"z", "c", "y">>, chars |-> <<"\\u0437">>, legacy |-> FALSE],
    [name |-> <<"z", "d", "o", "t">>, chars |-> <<"\\u017c">>, legacy |-> FALSE],
    [name |-> <<"z", "e", "e", "t", "r", "f">>, chars |-> <<"\\u2128">>, legacy |-> FALSE],
    [name |-> <<"z", "e", "t", "a">>, chars |-> <<"\\u03b6">>, legacy |-> FALSE],
    [name |-> <<"z", "f", "r">>, chars |-> <<"\\U0001d537">>, legacy |-> FALSE],
    [name |-> <<"z", "h", "c", "y">>, chars |-> <<"\\u0436">>, legacy |-> FALSE],
    [name |-> <<"z", "i", "g", "r", "a", "r", "r">>, chars |-> <<"\\u21dd">>, legacy |-> FALSE],
    [name |-> <<"z", "o", "p", "f">>, chars |-> <<"\\U0001d56b">>, legacy |-> FALSE],
    [name |-> <<"z", "s", "c", "r">>, chars |-> <<"\\U0001d4cf">>, legacy |-> FALSE],
    [name |-> <<"z", "w", "j">>, chars |-> <<"\\u200d">>, legacy |-> FALSE],
    [name |-> <<"z", "w", "n", "j">>, chars |-> <<"\\u200c">>, legacy |-> FALSE]
  >>

\* bytes 128..159 decoded as windows-1252 (the byte itself where undefined)
Windows1252 ==
  <<8364, 129, 8218, 402, 8222, 8230, 8224, 8225, 710, 8240, 352, 8249, 338, 141, 381, 143,
    144, 8216, 8217, 8220, 8221, 8226, 8211, 8212, 732, 8482, 353, 8250, 339, 157, 382, 376>>

\* the number a numeric reference names; past 16^7 every number is beyond
\* the last code point, so 16^7 stands for all of them
CharRefNumber(name) ==
  LET hex == name # <<>> /\ name[1] \in {"x", "X"}
      digits == IF hex THEN SubSeq(name, 2, Len(name)) ELSE name
      sig == SubSeq(digits, SpanOver(digits, 1, {"0"}), Len(digits))
  IN IF Len(sig) > 7 THEN 268435456 ELSE Number(sig, IF hex THEN 16 ELSE 10)

\* BeautifulSoupHTMLParser.handle_charref: the data for &#name;
handle_charref(name) ==
  LET real_name == CharRefNumber(name)
  IN IF real_name \in 128..159 THEN <<CodePoint(Windows1252[real_name - 127])>>
     ELSE IF real_name > 1114111 THEN <<"\\ufffd">>
     ELSE <<CodePoint(real_name)>>

\* the character the table gives to a name as data; the data given when it
\* gives none
Named(table, name, data) ==
  IF \E k \in 1..Len(table) : table[k].name = name
  THEN table[CHOOSE k \in 1..Len(table) : table[k].name = name].chars
  ELSE data

\* BeautifulSoupHTMLParser.handle_entityref: the data for &name;
handle_entityref(name) == Named(HtmlEntities, name, <<"&">> \o name)

\* html.unescape of a numeric reference
replace_charref(num) ==
  IF num = 0 THEN <<"\\ufffd">>
  ELSE IF num \in 128..159 THEN <<CodePoint(Windows1252[num - 127])>>
  ELSE IF num \in 55296..57343 \/ num > 1114111 THEN <<"\\ufffd">>
  ELSE IF \/ num \in (1..8) \cup {11} \cup (14..31) \cup {127}
          \/ num \in 64976..65007
          \/ num % 65536 \in {65534, 65535}
  THEN <<>>
  ELSE <<CodePoint(num)>>

\* html.unescape at "&#" of s, the digits being s[from..to-1]
replace_numeric(s, i, from, to) ==
  IF to = from THEN [text |-> <<"&">>, next |-> i + 1]
  ELSE [text |-> replace_charref(CharRefNumber(SubSeq(s, i + 2, to - 1))),
        next |-> IF to <= Len(s) /\ s[to] = ";" THEN to + 1 ELSE to]

\* html.unescape at "&" of s before a name that ends before position run:
\* the name with its semicolon, or a legacy name without it, else the
\* longest legacy name the text starts with
replace_named(table, s, i, run) ==
  LET semi == run <= Len(s) /\ s[run] = ";"
      name == SubSeq(s, i + 1, run - 1)
      known == {k \in 1..Len(table) :
                  /\ table[k].name = name
                  /\ semi \/ table[k].legacy}
      prefixes == {k \in 1..Len(table) :
                     /\ table[k].legacy
                     /\ Len(table[k].name) < Len(name) + (IF semi THEN 1 ELSE 0)
                     /\ StartsAt(name, 1, table[k].name)}
      longest == CHOOSE k \in prefixes :
                   \A j \in prefixes : Len(table[j].name) <= Len(table[k].name)
  IN IF run = i + 1 THEN [text |-> <<"&">>, next |-> i + 1]
     ELSE IF known # {}
     THEN [text |-> table[CHOOSE k \in known : TRUE].chars,
           next |-> IF semi THEN run + 1 ELSE run]
     ELSE IF prefixes # {}
     THEN [text |-> table[longest].chars, next |-> i + 1 + Len(table[longest].name)]
     ELSE [text |-> <<"&">>, next |-> i + 1]

\* html.unescape at an ampersand of s: [text, next], the text that replaces
\* s[i..next-1]
UnescapeAt(s, i) ==
  IF i < Len(s) /\ s[i + 1] = "#"
  THEN IF i + 1 < Len(s) /\ s[i + 2] \in {"x", "X"}
       THEN replace_numeric(s, i, i + 3, SpanOver(s, i + 3, HexChars))
       ELSE replace_numeric(s, i, i + 2, SpanOver(s, i + 2, DigitChars))
  ELSE replace_named(HtmlEntities, s, i,
                     SetMin({SpanUntil(s, i + 1, {"\t", "\n", "\f", " ", "<", "&", "#", ";"}),
                             i + 33}))

\* s with the match found[i] = [text, next] that starts at position i
\* replaced by its text (next is 0 where none starts)
Rewrite(s, found) ==
  Scan(s, [i \in 1..Len(s) |-> found[i].next], [i \in 1..Len(s) |-> found[i].text])

\* html.unescape, which html.parser applies to an attribute value
unescape(s) ==
  Rewrite(s, [i \in 1..Len(s) |->
                IF s[i] = "&" THEN UnescapeAt(s, i) ELSE [text |-> <<>>, next |-> 0]])

(***************************************************************************)
(* HTMLParser.goahead: the pieces of the markup, left to right.            *)
(***************************************************************************)
NoPiece ==
  [kind |-> "none", name |-> <<>>, attrs |-> <<>>, data |-> <<>>,
   selfclosing |-> FALSE, stop |-> FALSE, next |-> 0]

\* handle_data(data), the parser resuming at next
Data(data, next) == [NoPiece EXCEPT !.kind = "data", !.data = data, !.next = next]

\* handle_data(data) where the loop of goahead breaks
Break(data, next) == [Data(data, next) EXCEPT !.stop = TRUE]

\* a construct that does not end (k < 0): feed stops here, and close takes
\* the text up to and including the next ">", else up to the next "<", else
\* the "<" alone, as data
Incomplete(s, i) ==
  LET gt == SpanUntil(s, i + 1, {">"})
      lt == SpanUntil(s, i + 1, {"<"})
  IN IF gt <= Len(s) THEN Break(SubSeq(s, i, gt), gt + 1)
     ELSE IF lt <= Len(s) THEN Break(SubSeq(s, i, lt - 1), lt)
     ELSE Break(<<"<">>, i + 1)

\* (?:\s|/(?!>))* from position k
SkipSeparators(s, k) ==
  CHOOSE j \in k..(Len(s) + 1) :
    /\ \A m \in k..(j - 1) :
         \/ IsSpace(s[m])
         \/ s[m] = "/" /\ ~(m < Len(s) /\ s[m + 1] = ">")
    /\ \/ j > Len(s)
       \/ /\ ~IsSpace(s[j])
          /\ ~(s[j] = "/" /\ ~(j < Len(s) /\ s[j + 1] = ">"))

NotWhole == [attrs |-> <<>>, close |-> 0, selfclosing |-> FALSE]

\* the value of an attribute and the position after it; whole is FALSE when
\* its quote is not closed
AttrValue(value, next, whole) == [value |-> value, next |-> next, whole |-> whole]

\* the value that starts at position v: quoted up to the same quote, or bare
\* up to whitespace or ">"
ValueAt(s, v) ==
  LET quoted == v <= Len(s) /\ IsQuote(s[v])
      q == SpanUntil(s, v + 1, {s[v]})
      bare == SpanUntil(s, v, Whitespace \cup {">"})
  IN IF quoted THEN AttrValue(SubSeq(s, v + 1, q - 1), q + 1, q <= Len(s))
     ELSE AttrValue(SubSeq(s, v, bare - 1), bare, TRUE)

\* (\s*=+\s*(value))? after a name that ends before n, eq being the position
\* after the whitespace that follows the name
ValueAfter(s, n, eq) ==
  IF eq <= Len(s) /\ s[eq] = "="
  THEN ValueAt(s, SpanSpace(s, SpanOver(s, eq, {"="})))
  ELSE AttrValue(<<>>, n, TRUE)

RECURSIVE parse_attrs(_, _)

\* the attribute key with value a, and the attributes after it
AttrThen(s, key, a) ==
  LET rest == parse_attrs(s, SkipSeparators(s, a.next))
  IN IF ~a.whole THEN NotWhole
     ELSE IF rest.close = 0 THEN NotWhole
     ELSE [attrs |-> <<[key |-> key, value |-> unescape(a.value)]>> \o rest.attrs,
           close |-> rest.close,
           selfclosing |-> rest.selfclosing]

\* the attribute whose name is s[k..n-1]
AttrNamed(s, k, n) ==
  AttrThen(s, lower(SubSeq(s, k, n - 1)), ValueAfter(s, n, SpanSpace(s, n)))

\* attrfind_tolerant from position k of a start tag, up to the end of the
\* tag: close is the position of its ">", 0 when the tag is not whole
parse_attrs(s, k) ==
  IF k > Len(s) THEN NotWhole
  ELSE IF s[k] = ">" THEN [attrs |-> <<>>, close |-> k, selfclosing |-> FALSE]
  ELSE IF s[k] = "/"
  THEN IF k < Len(s) /\ s[k + 1] = ">"
       THEN [attrs |-> <<>>, close |-> k + 1, selfclosing |-> TRUE]
       ELSE NotWhole
  ELSE AttrNamed(s, k, SpanUntil(s, k + 1, Whitespace \cup {"/", "=", ">"}))

\* the start tag <name ...> at position i, tag being its attributes
StartPiece(s, i, name, tag) ==
  IF tag.close = 0 THEN Incomplete(s, i)
  ELSE [NoPiece EXCEPT !.kind = "start",
                       !.name = name,
                       !.attrs = tag.attrs,
                       !.selfclosing = tag.selfclosing,
                       !.next = tag.close + 1]

\* the start tag at position i whose name ends before position e; a name
\* that ends at U+0000 is no tag, and "<" and the name are data
TagNamed(s, i, e) ==
  IF e <= Len(s) /\ s[e] = "\\u0000" THEN Data(SubSeq(s, i, e - 1), e)
  ELSE StartPiece(s, i, lower(SubSeq(s, i + 1, e - 1)), parse_attrs(s, SkipSeparators(s, e)))

\* [^\t\n\r\f />\x00]* of tagfind_tolerant: the characters that end a tag name
NameEnd == {"\t", "\n", "\r", "\f", " ", "/", ">", "\\u0000"}

\* HTMLParser.parse_starttag at "<" followed by a letter
parse_starttag(s, i) == TagNamed(s, i, SpanUntil(s, i + 1, NameEnd))

\* HTMLParser.parse_endtag at "</"
parse_endtag(s, i) ==
  LET gt == SpanUntil(s, i + 1, {">"})
      a == SpanSpace(s, i + 2)
      b == SpanOver(s, a, (Letters \cup DigitChars) \cup {"-", ".", ":", "_"})
      c == SpanSpace(s, b)
      strict == a <= Len(s) /\ s[a] \in Letters /\ c <= Len(s) /\ s[c] = ">"
      e == SpanUntil(s, i + 2, NameEnd)
  IN IF gt > Len(s) THEN Incomplete(s, i)
     ELSE IF strict
     THEN [NoPiece EXCEPT !.kind = "end", !.name = lower(SubSeq(s, a, b - 1)), !.next = c + 1]
     ELSE IF s[i + 2] \in Letters
     THEN [NoPiece EXCEPT !.kind = "end", !.name = lower(SubSeq(s, i + 2, e - 1)),
                          !.next = SpanUntil(s, SkipSeparators(s, e), {">"}) + 1]
     ELSE IF s[i + 2] = ">" THEN [NoPiece EXCEPT !.kind = "skip", !.next = i + 3]
     ELSE [NoPiece EXCEPT !.kind = "comment", !.data = SubSeq(s, i + 2, gt - 1),
                          !.next = gt + 1]

\* parse_comment at "<!--": the comment ends at --\s*>
parse_comment(s, i) ==
  LET closes == {j \in (i + 4)..Len(s) :
                   /\ StartsAt(s, j, <<"-", "-">>)
                   /\ SpanSpace(s, j + 2) <= Len(s)
                   /\ s[SpanSpace(s, j + 2)] = ">"}
      j == SetMin(closes)
  IN IF closes = {} THEN Incomplete(s, i)
     ELSE [NoPiece EXCEPT !.kind = "comment", !.data = SubSeq(s, i + 4, j - 1),
                          !.next = SpanSpace(s, j + 2) + 1]

\* parse_pi at "<?"
parse_pi(s, i) ==
  LET gt == SpanUntil(s, i + 2, {">"})
  IN IF gt > Len(s) THEN Incomplete(s, i)
     ELSE [NoPiece EXCEPT !.kind = "pi", !.data = SubSeq(s, i + 2, gt - 1), !.next = gt + 1]

\* an AssertionError of the parser with its message: BeautifulSoup raises
\* ParserRejectedMarkup and nothing is parsed
Rejects(message) == [NoPiece EXCEPT !.kind = "error", !.data = message]

\* the marked section at position i named s[i+3..n-1], whose name and the
\* whitespace after it end before position j: a section named temp, cdata,
\* ignore, include or rcdata ends at ]\s*]\s*>, one named if, else or endif
\* at ]\s*>, and another name is an AssertionError.  unknown_decl makes a
\* CData of what follows "CDATA[" and a Declaration of any other section.
SectionNamed(s, i, n, j) ==
  LET sectName == lower(SubSeq(s, i + 3, n - 1))
      standard == sectName \in {<<"t", "e", "m", "p">>, <<"c", "d", "a", "t", "a">>, <<"i", "g", "n", "o", "r", "e">>,
                                <<"i", "n", "c", "l", "u", "d", "e">>, <<"r", "c", "d", "a", "t", "a">>}
      office == sectName \in {<<"i", "f">>, <<"e", "l", "s", "e">>, <<"e", "n", "d", "i", "f">>}
      closes == {c \in (i + 3)..Len(s) :
                   /\ s[c] = "]"
                   /\ LET d == SpanSpace(s, c + 1)
                      IN IF standard
                         THEN /\ d <= Len(s) /\ s[d] = "]"
                              /\ SpanSpace(s, d + 1) <= Len(s)
                              /\ s[SpanSpace(s, d + 1)] = ">"
                         ELSE d <= Len(s) /\ s[d] = ">"}
      c == SetMin(closes)
  IN IF j > Len(s) THEN Incomplete(s, i)
     ELSE IF ~standard /\ ~office
     THEN Rejects(<<"u", "n", "k", "n", "o", "w", "n", " ", "s", "t", "a", "t", "u", "s", " ", "k", "e", "y", "w", "o", "r", "d", " ">>
                    \o repr(SubSeq(s, i + 3, j - 1))
                    \o <<" ", "i", "n", " ", "m", "a", "r", "k", "e", "d", " ", "s", "e", "c", "t", "i", "o", "n">>)
     ELSE IF closes = {} THEN Incomplete(s, i)
     ELSE IF sectName = <<"c", "d", "a", "t", "a">> /\ s[i + 8] = "["
     THEN [NoPiece EXCEPT !.kind = "cdata", !.data = SubSeq(s, i + 9, c - 1),
                          !.next = SpanUntil(s, c, {">"}) + 1]
     ELSE [NoPiece EXCEPT !.kind = "declaration", !.data = SubSeq(s, i + 3, c - 1),
                          !.next = SpanUntil(s, c, {">"}) + 1]

\* ParserBase.parse_marked_section at "<![": _scan_name takes
\* [a-zA-Z][-_.a-zA-Z0-9]*\s* as the name, wants more markup where that
\* reaches the end, and raises an AssertionError where no name starts
parse_marked_section(s, i) ==
  IF i + 2 = Len(s) THEN Incomplete(s, i)
  ELSE IF s[i + 3] \notin Letters
  THEN Rejects(<<"e", "x", "p", "e", "c", "t", "e", "d", " ", "n", "a", "m", "e", " ", "t", "o", "k", "e", "n", " ", "a", "t", " ">>
                 \o repr(SubSeq(s, i, SetMin({i + 19, Len(s)}))))
  ELSE SectionNamed(s, i, SpanOver(s, i + 3, (Letters \cup DigitChars) \cup {"-", "_", "."}),
                    SpanSpace(s, SpanOver(s, i + 3, (Letters \cup DigitChars) \cup {"-", "_", "."})))

\* parse_html_declaration at "<!": a marked section, a doctype, whose data
\* loses its first eight characters in handle_decl, or a bogus comment
parse_html_declaration(s, i) ==
  IF StartsAt(s, i, <<"<", "!", "[">>) THEN parse_marked_section(s, i)
  ELSE
  LET doctype == lower(SubSeq(s, i, SetMin({i + 8, Len(s)})))
                   = <<"<", "!", "d", "o", "c", "t", "y", "p", "e">>
      gt == SpanUntil(s, IF doctype THEN i + 9 ELSE i + 2, {">"})
  IN IF gt > Len(s) THEN Incomplete(s, i)
     ELSE IF doctype
     THEN [NoPiece EXCEPT !.kind = "doctype", !.data = SubSeq(s, i + 10, gt - 1),
                          !.next = gt + 1]
     ELSE [NoPiece EXCEPT !.kind = "comment", !.data = SubSeq(s, i + 2, gt - 1),
                          !.next = gt + 1]

\* charref at "&#": the position after the digits, 0 when it does not match
CharRefEnd(s, i) ==
  LET dec == SpanOver(s, i + 2, DigitChars)
      isx == i + 1 < Len(s) /\ s[i + 2] \in {"x", "X"}
      hex == IF isx THEN SpanOver(s, i + 3, HexChars) ELSE 0
  IN IF dec > i + 2 /\ dec <= Len(s) /\ s[dec] \notin HexChars THEN dec
     ELSE IF isx /\ hex > i + 3 /\ hex <= Len(s) THEN hex
     ELSE 0

\* the branch of goahead at "&#", t being the end of the character reference
NumericReference(s, i, t) ==
  IF t > 0
  THEN Data(handle_charref(SubSeq(s, i + 2, t - 1)), IF s[t] = ";" THEN t + 1 ELSE t)
  ELSE IF \E k \in i..Len(s) : s[k] = ";" THEN Break(<<"&", "#">>, i + 2)
  ELSE Break(SubSeq(s, i, Len(s)), Len(s) + 1)

\* the branch of goahead at "&" and a letter, ends being the positions where
\* entityref can end the name
NamedReference(s, i, ends) ==
  LET e == CHOOSE x \in ends : \A y \in ends : y <= x
  IN IF ends # {}
     THEN Data(handle_entityref(SubSeq(s, i + 1, e - 1)), IF s[e] = ";" THEN e + 1 ELSE e)
     ELSE IF Len(s) = i + 1 THEN Data(<<>>, i + 1)
     ELSE Data(SubSeq(s, i, Len(s)), Len(s) + 1)

\* the branch of goahead at "&": charref, entityref, or the ampersand as data
Reference(s, i) ==
  IF StartsAt(s, i, <<"&", "#">>)
  THEN NumericReference(s, i, CharRefEnd(s, i))
  ELSE IF i < Len(s) /\ s[i + 1] \in Letters
  THEN NamedReference(s, i, {e \in (i + 2)..SpanOver(s, i + 2, (Letters \cup DigitChars) \cup {"-", "."}) :
                               e <= Len(s) /\ s[e] \notin (Letters \cup DigitChars)})
  ELSE Data(<<"&">>, i + 1)

\* the piece of the markup that starts at position i
PieceAt(s, i) ==
  IF s[i] = "<"
  THEN IF i < Len(s) /\ s[i + 1] \in Letters THEN parse_starttag(s, i)
       ELSE IF StartsAt(s, i, <<"<", "/">>) THEN parse_endtag(s, i)
       ELSE IF StartsAt(s, i, <<"<", "!", "-", "-">>) THEN parse_comment(s, i)
       ELSE IF StartsAt(s, i, <<"<", "?">>) THEN parse_pi(s, i)
       ELSE IF StartsAt(s, i, <<"<", "!">>) THEN parse_html_declaration(s, i)
       ELSE Data(<<"<">>, i + 1)
  ELSE IF s[i] = "&" THEN Reference(s, i)
  ELSE Data(SubSeq(s, i, SpanUntil(s, i, {"&", "<"}) - 1), SpanUntil(s, i, {"&", "<"}))

\* BeautifulSoupHTMLParser.feed: parser.feed(markup) runs goahead(False) up
\* to its first break, parser.close() runs goahead(True) on what is left.
\* With end set, a construct that does not end is data and the loop goes
\* on; "&#" that is no character reference breaks the loop either way, and
\* after the loop of close the rest of the markup is data.
\* An AssertionError ends the parse.  After the start tag of a script or
\* style element (set_cdata_mode) the parser looks for nothing but the end
\* tag of that element, cdata_elem being the name of the element, <<>>
\* outside of one.
RECURSIVE goahead(_, _, _, _)

\* HTMLParser.CDATA_CONTENT_ELEMENTS
CDATA_CONTENT_ELEMENTS == {<<"s", "c", "r", "i", "p", "t">>, <<"s", "t", "y", "l", "e">>}

\* the pieces from position i on, piece being the one that starts there
PiecesFrom(s, i, end, piece) ==
  IF piece.kind = "error" THEN <<piece>>
  ELSE IF ~piece.stop
  THEN <<piece>>
         \o goahead(s, piece.next, end,
                    IF /\ piece.kind = "start"
                       /\ ~piece.selfclosing
                       /\ piece.name \in CDATA_CONTENT_ELEMENTS
                    THEN piece.name ELSE <<>>)
  ELSE IF s[i] = "<" \/ ~end THEN <<piece>> \o goahead(s, piece.next, TRUE, <<>>)
  ELSE <<Data(SubSeq(s, i, Len(s)), Len(s) + 1)>>

\* </\s*NAME\s*> matched at position j without regard to case (re.I, which
\* takes U+017F for s and U+0130 and U+0131 for i): the position of its
\* ">", 0 where it does not match
CloseAt(s, j, name) ==
  LET a == SpanSpace(s, j + 2)
      c == SpanSpace(s, a + Len(name))
  IN IF /\ StartsAt(s, j, <<"<", "/">>)
        /\ a + Len(name) - 1 <= Len(s)
        /\ \A k \in 1..Len(name) :
             \/ Lower(s[a + k - 1]) = <<name[k]>>
             \/ name[k] = "s" /\ s[a + k - 1] = "\\u017f"
             \/ name[k] = "i" /\ s[a + k - 1] \in {"\\u0130", "\\u0131"}
        /\ c <= Len(s)
        /\ s[c] = ">"
     THEN c ELSE 0

\* goahead in a script or style element, closes being the positions from i
\* on where its end tag matches: the text before the first is data as it
\* stands; parse_endtag takes the match for the end tag when endtagfind
\* matches it too (its letters are ASCII), for data otherwise.  Where no
\* end tag follows, feed and close leave the rest of the markup unread.
RawText(s, i, end, cdata_elem, closes) ==
  IF closes = {} THEN <<>>
  ELSE LET j == SetMin(closes)
           gt == CloseAt(s, j, cdata_elem)
           a == SpanSpace(s, j + 2)
       IN (IF j > i THEN <<Data(SubSeq(s, i, j - 1), j)>> ELSE <<>>)
            \o (IF \A k \in a..(a + Len(cdata_elem) - 1) : s[k] \in Letters
                THEN <<[NoPiece EXCEPT !.kind = "end", !.name = cdata_elem, !.next = gt + 1]>>
                       \o goahead(s, gt + 1, end, <<>>)
                ELSE <<Data(SubSeq(s, j, gt), gt + 1)>>
                       \o goahead(s, gt + 1, end, cdata_elem))

goahead(s, i, end, cdata_elem) ==
  IF i > Len(s) THEN <<>>
  ELSE IF cdata_elem # <<>>
  THEN RawText(s, i, end, cdata_elem, {j \in i..Len(s) : CloseAt(s, j, cdata_elem) > 0})
  ELSE PiecesFrom(s, i, end, PieceAt(s, i))

(***************************************************************************)
(* The tree builder: the pieces become a balanced sequence of events, an   *)
(* "open" and a "close" around the events of an element's contents.        *)
(***************************************************************************)
\* HTMLTreeBuilder.empty_element_tags
empty_element_tags ==
  {<<"a", "r", "e", "a">>, <<"b", "a", "s", "e">>, <<"b", "r">>, <<"c", "o", "l">>,
   <<"e", "m", "b", "e", "d">>, <<"h", "r">>, <<"i", "m", "g">>,
   <<"i", "n", "p", "u", "t">>, <<"k", "e", "y", "g", "e", "n">>,
   <<"l", "i", "n", "k">>, <<"m", "e", "n", "u", "i", "t", "e", "m">>,
   <<"m", "e", "t", "a">>, <<"p", "a", "r", "a", "m">>,
   <<"s", "o", "u", "r", "c", "e">>, <<"t", "r", "a", "c", "k">>, <<"w", "b", "r">>,
   <<"b", "a", "s", "e", "f", "o", "n", "t">>, <<"b", "g", "s", "o", "u", "n", "d">>,
   <<"c", "o", "m", "m", "a", "n", "d">>, <<"f", "r", "a", "m", "e">>,
   <<"i", "m", "a", "g", "e">>, <<"i", "s", "i", "n", "d", "e", "x">>,
   <<"n", "e", "x", "t", "i", "d">>, <<"s", "p", "a", "c", "e", "r">>}

\* HTMLTreeBuilder.cdata_list_attributes: the attributes whose value is a
\* list of words
cdata_list_attributes(tag) ==
  {<<"c", "l", "a", "s", "s">>, <<"a", "c", "c", "e", "s", "s", "k", "e", "y">>,
   <<"d", "r", "o", "p", "z", "o", "n", "e">>}
  \cup (IF tag \in {<<"a">>, <<"l", "i", "n", "k">>}
        THEN {<<"r", "e", "l">>, <<"r", "e", "v">>} ELSE {})
  \cup (IF tag \in {<<"t", "d">>, <<"t", "h">>}
        THEN {<<"h", "e", "a", "d", "e", "r", "s">>} ELSE {})
  \cup (IF tag = <<"f", "o", "r", "m">>
        THEN {<<"a", "c", "c", "e", "p", "t", "-", "c", "h", "a", "r", "s", "e", "t">>}
        ELSE {})
  \cup (IF tag = <<"o", "b", "j", "e", "c", "t">>
        THEN {<<"a", "r", "c", "h", "i", "v", "e">>} ELSE {})
  \cup (IF tag = <<"a", "r", "e", "a">> THEN {<<"r", "e", "l">>} ELSE {})
  \cup (IF tag = <<"i", "c", "o", "n">> THEN {<<"s", "i", "z", "e", "s">>} ELSE {})
  \cup (IF tag = <<"i", "f", "r", "a", "m", "e">>
        THEN {<<"s", "a", "n", "d", "b", "o", "x">>} ELSE {})
  \cup (IF tag = <<"o", "u", "t", "p", "u", "t">> THEN {<<"f", "o", "r">>} ELSE {})

\* re.findall(r'\S+', value)
Words(value) ==
  LET starts == Ascending({i \in 1..Len(value) :
                             ~IsSpace(value[i]) /\ (i = 1 \/ IsSpace(value[i - 1]))})
  IN [k \in 1..Len(starts) |->
        SubSeq(value, starts[k], SpanUntil(value, starts[k], Whitespace) - 1)]

\* the attribute dictionary of a start tag: a name that comes again keeps
\* its place and takes the later value; a list of words is joined by " "
attr_dict(tag, attrs) ==
  LET firsts == Ascending({k \in 1..Len(attrs) :
                             \A j \in 1..(k - 1) : attrs[j].key # attrs[k].key})
      last(key) == CHOOSE k \in 1..Len(attrs) :
                     /\ attrs[k].key = key
                     /\ \A j \in (k + 1)..Len(attrs) : attrs[j].key # key
  IN [k \in 1..Len(firsts) |->
        LET key == attrs[firsts[k]].key
            value == attrs[last(key)].value
        IN [key |-> key,
            value |-> IF key \in cdata_list_attributes(tag)
                      THEN Join(Words(value), <<" ">>)
                      ELSE value]]

\* EntitySubstitution.substitute_xml
substitute_xml(s) ==
  Scan(s, [i \in 1..Len(s) |-> IF s[i] \in {"&", "<", ">"} THEN i + 1 ELSE 0],
          [i \in 1..Len(s) |->
             IF s[i] = "&" THEN <<"&", "a", "m", "p", ";">>
             ELSE IF s[i] = "<" THEN <<"&", "l", "t", ";">>
             ELSE <<"&", "g", "t", ";">>])

\* Formatter.quoted_attribute_value
quoted_attribute_value(value) ==
  IF \E k \in 1..Len(value) : value[k] = "\""
  THEN IF \E k \in 1..Len(value) : value[k] = "'"
       THEN <<"\"">>
              \o Scan(value, [i \in 1..Len(value) |-> IF value[i] = "\"" THEN i + 1 ELSE 0],
                             [i \in 1..Len(value) |-> <<"&", "q", "u", "o", "t", ";">>])
              \o <<"\"">>
       ELSE <<"'">> \o value \o <<"'">>
  ELSE <<"\"">> \o value \o <<"\"">>

\* a < b for two str: the order of sorted()
Before(a, b) ==
  \E p \in 1..Len(b) :
    /\ \A q \in 1..(p - 1) : q <= Len(a) /\ a[q] = b[q]
    /\ p > Len(a) \/ Ord(a[p]) < Ord(b[p])

\* CHARSET_RE of ContentMetaAttributeValue, ((^|;)\s*charset=)([^;]*) with
\* re.M, matched at position i: the position where "charset=" starts, 0
\* where it does not match
CharsetAt(value, i) ==
  LET charset == <<"c", "h", "a", "r", "s", "e", "t", "=">>
      line == SpanSpace(value, i)
      part == SpanSpace(value, i + 1)
  IN IF (i = 1 \/ value[i - 1] = "\n") /\ StartsAt(value, line, charset) THEN line
     ELSE IF value[i] = ";" /\ StartsAt(value, part, charset) THEN part
     ELSE 0

\* the attribute as str(elem) writes it, the encoding of str(elem) being
\* utf-8 (HTMLTreeBuilder.set_up_substitutions): of a meta element, the
\* value of charset, or else the charset in the value of content when
\* http-equiv is content-type, is replaced by it
Substituted(name, attrs, k) ==
  LET has(key) == \E j \in 1..Len(attrs) : attrs[j].key = key
      http_equiv == attrs[CHOOSE j \in 1..Len(attrs) :
                            attrs[j].key = <<"h", "t", "t", "p", "-", "e", "q", "u", "i", "v">>].value
      value == attrs[k].value
  IN IF name # <<"m", "e", "t", "a">> THEN value
     ELSE IF has(<<"c", "h", "a", "r", "s", "e", "t">>)
     THEN IF attrs[k].key = <<"c", "h", "a", "r", "s", "e", "t">>
          THEN <<"u", "t", "f", "-", "8">> ELSE value
     ELSE IF /\ attrs[k].key = <<"c", "o", "n", "t", "e", "n", "t">>
             /\ has(<<"h", "t", "t", "p", "-", "e", "q", "u", "i", "v">>)
             /\ lower(http_equiv) = <<"c", "o", "n", "t", "e", "n", "t", "-", "t", "y", "p", "e">>
     THEN Scan(value,
               [i \in 1..Len(value) |->
                  IF CharsetAt(value, i) > 0
                  THEN SpanUntil(value, CharsetAt(value, i) + 8, {";"}) ELSE 0],
               [i \in 1..Len(value) |->
                  SubSeq(value, i, CharsetAt(value, i) + 7) \o <<"u", "t", "f", "-", "8">>])
     ELSE value

\* Tag.decode up to the end of the attributes: <name key="value" ..., the
\* attributes sorted by name (Formatter.attributes)
StartTag(name, attrs) ==
  LET place(k) == Cardinality({j \in 1..Len(attrs) : Before(attrs[j].key, attrs[k].key)})
  IN <<"<">> \o name
       \o Flatten([n \in 1..Len(attrs) |->
                     LET k == CHOOSE j \in 1..Len(attrs) : place(j) = n - 1
                     IN <<" ">> \o attrs[k].key \o <<"=">>
                          \o quoted_attribute_value(
                                substitute_xml(Substituted(name, attrs, k)))])

Event(kind, name, attrs, data, html) ==
  [kind |-> kind, name |-> name, attrs |-> attrs, data |-> data, html |-> html]

\* handle_starttag: the element with its attribute dictionary attrs
Open(name, attrs) == Event("open", name, attrs, <<>>, StartTag(name, attrs))

Close(name) == Event("close", name, <<>>, <<>>, <<"<", "/">> \o name \o <<">">>)

\* BeautifulSoup.endData: a string of ASCII whitespace becomes one newline or
\* one space unless a pre or textarea is open
Collapse(data, stack) ==
  IF /\ data # <<>>
     /\ \A k \in 1..Len(data) : data[k] \in {" ", "\n", "\t", "\f", "\r"}
     /\ \A k \in 1..Len(stack) : stack[k] \notin {<<"p", "r", "e">>, <<"t", "e", "x", "t", "a", "r", "e", "a">>}
  THEN IF \E k \in 1..Len(data) : data[k] = "\n" THEN <<"\n">> ELSE <<" ">>
  ELSE data

\* HTMLTreeBuilder.DEFAULT_STRING_CONTAINERS: a string inside one of these
\* elements is of a class of its own, which get_text leaves out
string_containers ==
  {<<"r", "t">>, <<"r", "p">>, <<"s", "t", "y", "l", "e">>,
   <<"s", "c", "r", "i", "p", "t">>, <<"t", "e", "m", "p", "l", "a", "t", "e">>}

\* the string node for the data gathered since the last tag, if any;
\* str(elem) writes a string whose parent is a script or style element as
\* it stands (Formatter.substitute)
endData(cur, stack) ==
  IF cur = <<>> THEN <<>>
  ELSE <<Event(IF \E k \in 1..Len(stack) : stack[k] \in string_containers
               THEN "contained" ELSE "text",
               <<>>, <<>>, Collapse(cur, stack),
               IF stack # <<>> /\ stack[Len(stack)] \in CDATA_CONTENT_ELEMENTS
               THEN Collapse(cur, stack)
               ELSE substitute_xml(Collapse(cur, stack)))>>

\* a comment, doctype, processing instruction, CData or declaration:
\* written as it is; only a CData is text of get_text
Special(piece, stack) ==
  LET data == Collapse(piece.data, stack)
  IN Event(piece.kind, <<>>, <<>>, data,
           IF piece.kind = "comment" THEN <<"<", "!", "-", "-">> \o data \o <<"-", "-", ">">>
           ELSE IF piece.kind = "doctype"
           THEN <<"<", "!", "D", "O", "C", "T", "Y", "P", "E", " ">> \o data \o <<">", "\n">>
           ELSE IF piece.kind = "cdata"
           THEN <<"<", "!", "[", "C", "D", "A", "T", "A", "[">> \o data \o <<"]", "]", ">">>
           ELSE IF piece.kind = "declaration" THEN <<"<", "?">> \o data \o <<"?", ">">>
           ELSE <<"<", "?">> \o data \o <<">">>)

\* ParserRejectedMarkup as BeautifulSoup raises it for an AssertionError of
\* the parser
ParserRejectedMarkup(message) ==
  <<"T", "h", "e", " ", "m", "a", "r", "k", "u", "p", " ", "y", "o", "u", " ", "p", "r",
    "o", "v", "i", "d", "e", "d", " ", "w", "a", "s", " ", "r", "e", "j", "e", "c", "t",
    "e", "d", " ", "b", "y", " ", "t", "h", "e", " ", "p", "a", "r", "s", "e", "r", ".",
    " ", "T", "r", "y", "i", "n", "g", " ", "a", " ", "d", "i", "f", "f", "e", "r", "e",
    "n", "t", " ", "p", "a", "r", "s", "e", "r", " ", "o", "r", " ", "a", " ", "d", "i",
    "f", "f", "e", "r", "e", "n", "t", " ", "e", "n", "c", "o", "d", "i", "n", "g", " ",
    "m", "a", "y", " ", "h", "e", "l", "p", ".", "\n", "\n", "O", "r", "i", "g", "i",
    "n", "a", "l", " ", "e", "x", "c", "e", "p", "t", "i", "o", "n", "(", "s", ")", " ",
    "f", "r", "o", "m", " ", "p", "a", "r", "s", "e", "r", ":", "\n", " ", "A", "s", "s",
    "e", "r", "t", "i", "o", "n", "E", "r", "r", "o", "r", ":", " ">>
    \o message

\* the sequence without its first occurrence of x
Remove(seq, x) ==
  LET k == CHOOSE j \in 1..Len(seq) : seq[j] = x /\ \A m \in 1..(j - 1) : seq[m] # x
  IN SubSeq(seq, 1, k - 1) \o SubSeq(seq, k + 1, Len(seq))

\* the innermost open element of that name
Innermost(stack, name) ==
  CHOOSE k \in 1..Len(stack) :
    stack[k] = name /\ \A j \in (k + 1)..Len(stack) : stack[j] # name

\* the end tags of the elements stack[k..], innermost first
PopTo(stack, k) == [j \in 1..(Len(stack) - k + 1) |-> Close(stack[Len(stack) - j + 1])]

\* the events from piece k on: stack holds the names of the open elements,
\* closed the void elements closed at their start tag, cur the data since
\* the last tag.  Where the parser raised, the last event is "rejected"
\* with the message of the exception that BeautifulSoup raises.
RECURSIVE Build(_, _, _, _, _)
Build(pieces, k, stack, closed, cur) ==
  IF k > Len(pieces) THEN endData(cur, stack) \o PopTo(stack, 1)
  ELSE
    LET p == pieces[k]
        open == \E j \in 1..Len(stack) : stack[j] = p.name
        done == \E j \in 1..Len(closed) : closed[j] = p.name
    IN CASE p.kind \in {"data", "skip"} ->
              Build(pieces, k + 1, stack, closed, cur \o p.data)
         [] p.kind = "error" ->
              <<Event("rejected", <<>>, <<>>, ParserRejectedMarkup(p.data), <<>>)>>
         [] p.kind \in {"comment", "doctype", "pi", "cdata", "declaration"} ->
              endData(cur, stack) \o <<Special(p, stack)>>
                \o Build(pieces, k + 1, stack, closed, <<>>)
         [] p.kind = "start" /\ p.selfclosing /\ done ->
              endData(cur, stack) \o <<Open(p.name, attr_dict(p.name, p.attrs))>>
                \o Build(pieces, k + 1, Append(stack, p.name), Remove(closed, p.name), <<>>)
         [] p.kind = "start" /\ p.selfclosing /\ ~done ->
              endData(cur, stack) \o <<Open(p.name, attr_dict(p.name, p.attrs)), Close(p.name)>>
                \o Build(pieces, k + 1, stack, closed, <<>>)
         [] p.kind = "start" /\ ~p.selfclosing /\ p.name \in empty_element_tags ->
              endData(cur, stack) \o <<Open(p.name, attr_dict(p.name, p.attrs)), Close(p.name)>>
                \o Build(pieces, k + 1, stack, Append(closed, p.name), <<>>)
         [] p.kind = "start" /\ ~p.selfclosing /\ p.name \notin empty_element_tags ->
              endData(cur, stack) \o <<Open(p.name, attr_dict(p.name, p.attrs))>>
                \o Build(pieces, k + 1, Append(stack, p.name), closed, <<>>)
         [] p.kind = "end" /\ done ->
              Build(pieces, k + 1, stack, Remove(closed, p.name), cur)
         [] p.kind = "end" /\ ~done /\ open ->
              endData(cur, stack) \o PopTo(stack, Innermost(stack, p.name))
                \o Build(pieces, k + 1, SubSeq(stack, 1, Innermost(stack, p.name) - 1),
                         closed, <<>>)
         [] p.kind = "end" /\ ~done /\ ~open ->
              endData(cur, stack) \o Build(pieces, k + 1, stack, closed, <<>>)

\* BeautifulSoup(markup, 'html.parser'), lines 13 and 79
BeautifulSoup(markup) == Build(goahead(markup, 1, FALSE, <<>>), 1, <<>>, <<>>, <<>>)

\* BeautifulSoup raised
Rejected(soup) == soup # <<>> /\ soup[Len(soup)].kind = "rejected"

\* the event that closes the element opened by event a
EndOf(soup, a) ==
  CHOOSE b \in (a + 1)..Len(soup) :
    /\ Cardinality({k \in a..b : soup[k].kind = "open"})
         = Cardinality({k \in a..b : soup[k].kind = "close"})
    /\ \A c \in (a + 1)..(b - 1) :
         Cardinality({k \in a..c : soup[k].kind = "open"})
           # Cardinality({k \in a..c : soup[k].kind = "close"})

\* str(elem): a void element without contents is written <name/>
Decode(soup, a, b) ==
  Flatten([k \in 1..(b - a + 1) |->
             LET ev == soup[a + k - 1]
                 void == ev.name \in empty_element_tags
             IN IF ev.kind = "open"
                THEN ev.html \o (IF void /\ soup[a + k].kind = "close"
                                 THEN <<"/", ">">> ELSE <<">">>)
                ELSE IF ev.kind = "close" /\ void /\ soup[a + k - 2].kind = "open"
                THEN <<>>
                ELSE ev.html])

\* elem.get_text(strip=True): the strings and the CData of the element that
\* are in no string container, each stripped, the empty ones left out,
\* joined
GetText(soup, a, b) ==
  Flatten([k \in 1..(b - a + 1) |->
             IF soup[a + k - 1].kind \in {"text", "cdata"}
             THEN Strip(soup[a + k - 1].data) ELSE <<>>])

\* the element opened by event a
Element(soup, a) ==
  LET b == EndOf(soup, a)
      class == {k \in 1..Len(soup[a].attrs) :
                  soup[a].attrs[k].key = <<"c", "l", "a", "s", "s">>}
  IN [tag |-> soup[a].name,
      attrs |-> soup[a].attrs,
      class |-> IF class = {} THEN <<>>
                ELSE Words(soup[a].attrs[CHOOSE k \in class : TRUE].value),
      html |-> Decode(soup, a, b),
      text |-> GetText(soup, a, b)]

\* the elements of the document, in document order
Elements(soup) ==
  LET at == Ascending({a \in 1..Len(soup) : soup[a].kind = "open"})
  IN [k \in 1..Len(at) |-> Element(soup, at[k])]

\* cls is one of the element's classes
HasClass(el, cls) == \E k \in 1..Len(el.class) : el.class[k] = cls

\* content_selectors, lines 83-88
content_selectors ==
  <<[tag |-> <<"d", "i", "v">>, with |-> TextBlockClass, without |-> <<>>],
    [tag |-> <<"h", "1">>, with |-> <<>>, without |-> <<>>],
    [tag |-> <<"h", "2">>, with |-> <<>>, without |-> <<>>],
    [tag |-> <<"h", "3">>, with |-> <<>>, without |-> <<>>],
    [tag |-> <<"h", "4">>, with |-> <<>>, without |-> <<>>],
    [tag |-> <<"h", "5">>, with |-> <<>>, without |-> <<>>],
    [tag |-> <<"h", "6">>, with |-> <<>>, without |-> <<>>],
    [tag |-> <<"p">>, with |-> <<>>, without |-> <<"s", "t", "y", "l", "e", "s", "_", "c", "a", "p", "t", "i", "o", "n", "_", "_", "q",
                                                   "s", "b", "p", "i">>],
    [tag |-> <<"f", "i", "g", "c", "a", "p", "t", "i", "o", "n">>, with |-> <<>>, without |-> <<>>]>>

\* soup.select(selector): the matching elements in document order
Select(elements, selector) ==
  SelectSeq(elements,
            LAMBDA el : /\ el.tag = selector.tag
                        /\ selector.with = <<>> \/ HasClass(el, selector.with)
                        /\ selector.without = <<>> \/ ~HasClass(el, selector.without))

\* lines 90-91: per selector, the elements it selects
SelectAll(elements) ==
  Flatten([k \in 1..Len(content_selectors) |-> Select(elements, content_selectors[k])])

\* lines 93-100: an element as the function returns it
Extracted(found) ==
  [k \in 1..Len(found) |->
     [html |-> found[k].html,
      text |-> clean_text(StrText(found[k].text), FALSE),
      tag |-> found[k].tag]]

\* lines 80-102, soup being the BeautifulSoup of line 79: per selector, the
\* elements whose cleaned text is not empty; raised is TRUE, and error the
\* str() of the exception, when BeautifulSoup raised
Translatable(soup) ==
  IF Rejected(soup)
  THEN [raised |-> TRUE, elements |-> <<>>, error |-> soup[Len(soup)].data]
  ELSE [raised |-> FALSE,
        elements |-> SelectSeq(Extracted(SelectAll(Elements(soup))),
                               LAMBDA el : el.text # <<>>),
        error |-> <<>>]

\* lines 77-102
extract_translatable_content(html_content) == Translatable(BeautifulSoup(html_content))

(***************************************************************************)
(* fetch_cicero_article, lines 7-40.  reply is what requests.get and       *)
(* raise_for_status gave: a page, or a RequestException with its str().    *)
(***************************************************************************)
Page(html) == [kind |-> "page", html |-> html, detail |-> <<>>]
RequestException(detail) == [kind |-> "RequestException", html |-> <<>>, detail |-> detail]

Returned(text) == [ok |-> TRUE, text |-> text, error |-> <<>>]
Raised(message) == [ok |-> FALSE, text |-> <<>>, error |-> message]

\* lines 26-31: the blocks whose text was not seen in an earlier block
FirstOfEachText(blocks) ==
  SelectSeq([k \in 1..Len(blocks) |->
               [html |-> blocks[k].html,
                keep |-> \A j \in 1..(k - 1) : blocks[j].text # blocks[k].text]],
            LAMBDA b : b.keep)

\* lines 16-31, elements being the elements of the page
FoundContent(elements) ==
  LET titles == Select(elements, [tag |-> <<"h", "1">>, with |-> <<>>, without |-> <<>>])
      main_content == Select(elements, [tag |-> <<"d", "i", "v">>, with |-> TextBlockClass,
                                        without |-> <<>>])
      kept == FirstOfEachText(main_content)
  IN (IF Len(titles) > 0 THEN <<titles[1].html>> ELSE <<>>)
     \o [k \in 1..Len(kept) |-> kept[k].html]

\* lines 33-36
ReturnContent(content) ==
  IF content = <<>>
  THEN Raised(ErrorProcessing \o NoArticleContent)
  ELSE Returned(Join(content, <<"\n">>))

\* lines 16-40, soup being the BeautifulSoup of line 13: the handler of line
\* 39 wraps what BeautifulSoup raised
article_content(soup) ==
  IF Rejected(soup) THEN Raised(ErrorProcessing \o soup[Len(soup)].data)
  ELSE ReturnContent(FoundContent(Elements(soup)))

fetch_cicero_article(reply) ==
  IF reply.kind = "RequestException"
  THEN Raised(FailedToFetch \o reply.detail)
  ELSE article_content(BeautifulSoup(reply.html))

(***************************************************************************)
(* The messages of get_translation_and_analysis, lines 130-206.            *)
(***************************************************************************)
\* lines 130-139
translation_prompt(from_lang, to_lang) ==
  <<"T", "r", "a", "n", "s", "l", "a", "t", "e", " ", "t", "h", "i", "s", " ", "c",
    "o", "n", "t", "e", "n", "t", " ", "f", "r", "o", "m", " ">>
    \o from_lang
    \o <<" ", "t", "o", " ">>
    \o to_lang
    \o <<".", "\n", " ", " ", " ", " ", " ", " ", " ", " ", " ", " ", " ", " ", "I",
         "m", "p", "o", "r", "t", "a", "n", "t", ":", "\n", " ", " ", " ", " ", " ",
         " ", " ", " ", " ", " ", " ", " ", "-", " ", "T", "r", "a", "n", "s", "l",
         "a", "t", "e", " ", "o", "n", "l", "y", " ", "t", "h", "e", " ", "a", "c",
         "t", "u", "a", "l", " ", "c", "o", "n", "t", "e", "n", "t", "\n", " ", " ",
         " ", " ", " ", " ", " ", " ", " ", " ", " ", " ", "-", " ", "P", "r", "e",
         "s", "e", "r", "v", "e", " ", "H", "T", "M", "L", " ", "s", "t", "r", "u",
         "c", "t", "u", "r", "e", " ", "e", "x", "a", "c", "t", "l", "y", "\n", " ",
         " ", " ", " ", " ", " ", " ", " ", " ", " ", " ", " ", "-", " ", "D", "o",
         " ", "n", "o", "t", " ", "a", "d", "d", " ", "a", "n", "y", " ", "t", "e",
         "c", "h", "n", "i", "c", "a", "l", " ", "a", "n", "n", "o", "t", "a", "t",
         "i", "o", "n", "s", " ", "o", "r", " ", "m", "e", "t", "a", "d", "a", "t",
         "a", "\n", " ", " ", " ", " ", " ", " ", " ", " ", " ", " ", " ", " ", "-",
         " ", "D", "o", " ", "n", "o", "t", " ", "a", "d", "d", " ", "p", "h", "r",
         "a", "s", "e", "s", " ", "l", "i", "k", "e", " ", "'", "t", "y", "p", "e",
         "=", "t", "e", "x", "t", "'", " ", "o", "r", " ", "s", "i", "m", "i", "l",
         "a", "r", "\n", " ", " ", " ", " ", " ", " ", " ", " ", " ", " ", " ", " ",
         "-", " ", "K", "e", "e", "p", " ", "h", "e", "a", "d", "i", "n", "g", " ",
         "f", "o", "r", "m", "a", "t", "s", " ", "b", "u", "t", " ", "t", "r", "a",
         "n", "s", "l", "a", "t", "e", " ", "t", "h", "e", " ", "t", "e", "x", "t",
         "\n", " ", " ", " ", " ", " ", " ", " ", " ", " ", " ", " ", " ", "-", " ",
         "M", "a", "i", "n", "t", "a", "i", "n", " ", "t", "h", "e", " ", "s", "a",
         "m", "e", " ", "p", "a", "r", "a", "g", "r", "a", "p", "h", " ", "s", "t",
         "r", "u", "c", "t", "u", "r", "e", "\n", " ", " ", " ", " ", " ", " ", " ",
         " ", " ", " ", " ", " ", "F", "o", "r", " ", "t", "h", "e", " ", "t", "i",
         "t", "l", "e", "/", "h", "e", "a", "d", "i", "n", "g", ",", " ", "t", "r",
         "a", "n", "s", "l", "a", "t", "e", " ", "d", "i", "r", "e", "c", "t", "l",
         "y", " ", "w", "i", "t", "h", "o", "u", "t", " ", "a", "d", "d", "i", "n",
         "g", " ", "a", "n", "y", " ", "m", "e", "t", "a", "d", "a", "t", "a", " ",
         "o", "r", " ", "q", "u", "o", "t", "e", "s", ".", "\n", " ", " ", " ", " ",
         " ", " ", " ", " ", " ", " ", " ", " ">>

\* lines 152-163: the message sent for one element
ElementMessage(element, from_lang, to_lang) ==
  translation_prompt(from_lang, to_lang)
    \o (IF element.tag \in {<<"h", "1">>, <<"h", "2">>, <<"h", "3">>,
                            <<"h", "4">>, <<"h", "5">>, <<"h", "6">>}
        THEN <<"\n", "T", "h", "i", "s", " ", "i", "s", " ", "a", " ", "t", "i", "t",
               "l", "e", "/", "h", "e", "a", "d", "i", "n", "g", " ", "-", " ", "t",
               "r", "a", "n", "s", "l", "a", "t", "e", " ", "o", "n", "l", "y", " ",
               "t", "h", "e", " ", "t", "e", "x", "t", " ", "w", "i", "t", "h", "o",
               "u", "t", " ", "a", "d", "d", "i", "n", "g", " ", "a", "n", "y", " ",
               "m", "e", "t", "a", "d", "a", "t", "a", ":">>
        ELSE <<>>)
    \o <<"\n", "\n", "T", "e", "x", "t", " ", "t", "o", " ", "t", "r", "a", "n", "s",
         "l", "a", "t", "e", ":", " ">>
    \o element.text

\* line 189: the message sent in plain mode
PlainMessage(input_text, from_lang, to_lang) ==
  <<"T", "r", "a", "n", "s", "l", "a", "t", "e", " ", "t", "h", "i", "s", " ", "f",
    "r", "o", "m", " ">>
    \o from_lang
    \o <<" ", "t", "o", " ">>
    \o to_lang
    \o <<":", "\n", "\n">>
    \o input_text

\* lines 202-206: the message of the analysis call
AnalysisMessage(input_text, translated_html) ==
  <<"A", "n", "a", "l", "y", "z", "e", " ", "t", "h", "i", "s", " ", "t", "r", "a",
    "n", "s", "l", "a", "t", "i", "o", "n", ":", "\n", " ", " ", " ", " ", " ", " ",
    " ", " ", " ", " ", " ", " ", " ", " ", " ", " ", "P", "r", "o", "v", "i", "d",
    "e", " ", "b", "r", "i", "e", "f", " ", "a", "n", "a", "l", "y", "s", "i", "s",
    " ", "f", "o", "c", "u", "s", "i", "n", "g", " ", "o", "n", ":", "\n", " ", " ",
    " ", " ", " ", " ", " ", " ", " ", " ", " ", " ", " ", " ", " ", " ", "1", ".",
    " ", "K", "e", "y", " ", "t", "e", "r", "m", "i", "n", "o", "l", "o", "g", "y",
    " ", "t", "r", "a", "n", "s", "l", "a", "t", "i", "o", "n", "s", " ", "f", "o",
    "r", " ", "c", "l", "i", "m", "a", "t", "e", " ", "s", "c", "i", "e", "n", "c",
    "e", "\n", " ", " ", " ", " ", " ", " ", " ", " ", " ", " ", " ", " ", " ", " ",
    " ", " ", "2", ".", " ", "A", "n", "y", " ", "c", "h", "a", "l", "l", "e", "n",
    "g", "i", "n", "g", " ", "a", "s", "p", "e", "c", "t", "s", " ", "s", "p", "e",
    "c", "i", "f", "i", "c", " ", "t", "o", " ", "C", "I", "C", "E", "R", "O", " ",
    "c", "o", "n", "t", "e", "n", "t", "\n", " ", " ", " ", " ", " ", " ", " ", " ",
    " ", " ", " ", " ", " ", " ", " ", " ", "3", ".", " ", "S", "u", "g", "g", "e",
    "s", "t", "i", "o", "n", "s", " ", "f", "o", "r", " ", "i", "m", "p", "r", "o",
    "v", "e", "m", "e", "n", "t">>

\* str.replace(old, new); an empty old is found before every character and
\* at the end
Replace(s, old, new) ==
  IF old = <<>> THEN Flatten([k \in 1..Len(s) |-> new \o <<s[k]>>]) \o new
  ELSE Scan(s, [i \in 1..Len(s) |-> IF StartsAt(s, i, old) THEN i + Len(old) ELSE 0],
               [i \in 1..Len(s) |-> new])

\* lines 176-180: final cleanup pass
FinalCleanup(s) ==
  LET t1 == sub_TypeText(s)
      t2 == sub_QuoteCommaEnd(t1)
      t3 == sub_LeadingQuote(t2)
      t4 == sub_CommaEnd(t3)
  IN sub_GtSpaceLt(t4)

(***************************************************************************)
(* The session of main (lines 217-298) and one Translate action            *)
(* (get_translation_and_analysis, lines 122-215), stopped at each Gateway  *)
(* call until the Gateway replies.                                         *)
(***************************************************************************)
VARIABLES
  session,  \* st.session_state: input_text, translation, analysis, last_url
  run,      \* the current script run: the widgets' values, the fetch and its reply
  job,      \* get_translation_and_analysis: position, locals, Gateway calls, result
  shown,    \* the st.error messages of the current script run
  probe     \* clean_text applied on its own: input, flag, results

vars == <<session, run, job, shown, probe>>

None == [some |-> FALSE, val |-> <<>>]
Some(v) == [some |-> TRUE, val |-> v]

\* the truth value Python gives an Optional[str]
Truthy(o) == o.some /\ o.val # <<>>

(***************************************************************************)
(* Bounds and the inputs drawn from them.                                  *)
(***************************************************************************)
\* paragraphs of the pasted document
MaxParagraphs == 2

\* pieces of the longest string given to clean_text on its own
MaxPieces == 4

\* <h1>Ny</h1> followed by n paragraphs <p>Ha</p>, <p>Hb</p>, ...
Document(n) ==
  <<"<", "h", "1", ">", "N", "y", "<", "/", "h", "1", ">">>
    \o Flatten([k \in 1..n |->
                  <<"<", "p", ">", "H", <<"a", "b", "c", "d", "e", "f", "g", "h">>[k],
                    "<", "/", "p", ">">>])

\* what the user may paste: nothing, plain text, markup, markup that the
\* parser rejects
PastedTexts ==
  {<<>>, <<"H", "e", "i">>, <<",">>, Document(MaxParagraphs), <<"<", "!", "[", "]", ">">>}

\* <H1>Ny</H1><div class='lead styles_textBlock___VSu1'>Hei &amp; <b>ha</b></div>
ArticlePage ==
  <<"<", "H", "1", ">", "N", "y", "<", "/", "H", "1", ">",
    "<", "d", "i", "v", " ", "c", "l", "a", "s", "s", "=", "'", "l", "e", "a", "d", " ">>
    \o TextBlockClass
    \o <<"'", ">", "H", "e", "i", " ", "&", "a", "m", "p", ";", " ",
          "<", "b", ">", "h", "a", "<", "/", "b", ">", "<", "/", "d", "i", "v", ">">>

\* what requests.get may give: the article, a page without article content,
\* a page that the parser rejects, a failure
FetchReplies ==
  {Page(ArticlePage), Page(<<"<", "b", ">", "x", "<", "/", "b", ">">>),
   Page(<<"<", "!", "[", "]", ">">>), RequestException(<<"4", "0", "4">>)}

\* " \u2192 ", the arrow of the options being one character outside ASCII
Arrow == <<" ", "\\u2192", " ">>

\* the two values of the direction radio (line 237)
Directions == {Norwegian \o Arrow \o English, English \o Arrow \o Norwegian}

\* lines 249-250
from_lang(direction) == IF StartsAt(direction, 1, Norwegian) THEN Norwegian ELSE English
to_lang(direction) == IF StartsAt(direction, 1, Norwegian) THEN English ELSE Norwegian

\* the Gateway's error kinds, by their str()
GatewayErrors ==
  {<<"U", "n", "a", "v", "a", "i", "l", "a", "b", "l", "e">>,
   <<"R", "a", "t", "e", "L", "i", "m", "i", "t", "e", "d">>,
   <<"I", "n", "v", "a", "l", "i", "d", "C", "r", "e", "d", "e", "n", "t", "i", "a", "l", "s">>,
   <<"T", "i", "m", "e", "o", "u", "t">>}

\* what client.messages.create may do: return a response with its content
\* blocks, or raise
GatewayReplies ==
  {[ok |-> TRUE, content |-> << <<"H", "i">> >>, error |-> <<>>]}
    \cup {[ok |-> FALSE, content |-> <<>>, error |-> e] : e \in GatewayErrors}

\* response.content as clean_text receives it: the list of the blocks, the
\* str() of a block being TextBlock(text=<repr of the text>, type='text')
ContentList(content) ==
  ListText([k \in 1..Len(content) |->
              TextBlockOpen \o repr(content[k])
                \o <<",", " ", "t", "y", "p", "e", "=", "'", "t", "e", "x", "t", "'", ")">>])

(***************************************************************************)
(* get_translation_and_analysis                                            *)
(***************************************************************************)
NoResult == [translation |-> None, analysis |-> None]

IdleJob ==
  [pc |-> "idle", input_text |-> <<>>, from_lang |-> <<>>, to_lang |-> <<>>,
   preserve_html |-> FALSE, elements |-> <<>>, idx |-> 0,
   translated_html |-> <<>>, calls |-> <<>>, outcome |-> "none", error |-> <<>>,
   result |-> NoResult]

\* what line 125 may do: give the client, or raise; error is the str() of
\* the KeyError of a secret that is not set
ClientOutcomes ==
  {[ok |-> TRUE, error |-> <<>>],
   [ok |-> FALSE, error |-> <<"'", "A", "N", "T", "H", "R", "O", "P", "I", "C", "_", "A", "P", "I", "_", "K", "E", "Y", "'">>]}

\* client.messages.create: the call is issued and waits for the Gateway
Issue(calls, kind, message) ==
  Append(calls, [kind |-> kind, message |-> message, status |-> "pending",
                 content |-> <<>>])

\* the Gateway's reply reaches the pending call, the last one issued
Settle(calls, status, content) ==
  [calls EXCEPT ![Len(calls)] = [@ EXCEPT !.status = status, !.content = content]]

\* line 148: the next element at or after k whose text is not blank
NextElement(elements, k) ==
  CHOOSE n \in k..(Len(elements) + 1) :
    /\ n > Len(elements) \/ Strip(elements[n].text) # <<>>
    /\ \A m \in k..(n - 1) : Strip(elements[m].text) = <<>>

\* lines 195-208: the translation is complete, the analysis call is issued
AskAnalysis(j, translated_html) ==
  [j EXCEPT !.pc = "analysis",
            !.translated_html = translated_html,
            !.calls = Issue(j.calls, "analysis",
                            AnalysisMessage(j.input_text, translated_html))]

\* lines 147-181: the loop reaches element k, or ends and the cleanup pass runs
Loop(j, k) ==
  IF k <= Len(j.elements)
  THEN [j EXCEPT !.pc = "element",
                 !.idx = k,
                 !.calls = Issue(j.calls, "translation",
                                 ElementMessage(j.elements[k], j.from_lang, j.to_lang))]
  ELSE AskAnalysis(j, FinalCleanup(j.translated_html))

\* lines 213-215 before any Gateway call: an exception of line 125 or of
\* line 128, whose str() is e, ends the function with (None, None)
Abandon(j, e) == [j EXCEPT !.outcome = "raised", !.error = e, !.result = NoResult]

\* lines 128-147: the elements are extracted and the loop starts over them
StartLoop(j, found) ==
  IF found.raised THEN Abandon(j, found.error)
  ELSE Loop([j EXCEPT !.elements = found.elements], NextElement(found.elements, 1))

\* lines 124-191: the call of the function, up to its first Gateway call,
\* client being what line 125 gave
Start(input_text, from, to, preserve_html, client) ==
  LET j == [IdleJob EXCEPT !.input_text = input_text, !.from_lang = from,
                           !.to_lang = to, !.preserve_html = preserve_html,
                           !.outcome = "running"]
  IN IF ~client.ok THEN Abandon(j, client.error)
     ELSE IF preserve_html
     THEN StartLoop([j EXCEPT !.translated_html = input_text],
                    extract_translatable_content(input_text))
     ELSE [j EXCEPT !.pc = "plain",
                    !.calls = Issue(j.calls, "translation",
                                    PlainMessage(input_text, from, to))]

\* the reply is received and its translation is dropped instead of merged
MergeNothing(j, content) ==
  [j EXCEPT !.calls = Settle(j.calls, "ok", content)]

\* lines 167-170: the reply to the call of element idx is merged
Merge(j, content) ==
  [j EXCEPT !.calls = Settle(j.calls, "ok", content),
            !.translated_html =
               Replace(j.translated_html, j.elements[j.idx].text,
                       clean_text(ContentList(content), FALSE))]

\* the handler issues the failed call once more instead of giving up
ExceptRetry(j) ==
  [j EXCEPT !.calls = Issue(Settle(j.calls, "error", <<>>),
                            j.calls[Len(j.calls)].kind, j.calls[Len(j.calls)].message)]

\* lines 213-215: the exception of a Gateway call ends the function with
\* (None, None)
Except(j) ==
  [j EXCEPT !.pc = "idle",
            !.calls = Settle(j.calls, "error", <<>>),
            !.outcome = "raised",
            !.result = NoResult]

\* the message is swallowed
st_error_silent(messages, message) == messages

\* line 214: st.error
st_error(messages, message) == Append(messages, message)

\* lines 210-211
Return(j, content) ==
  [j EXCEPT !.pc = "idle",
            !.calls = Settle(j.calls, "ok", content),
            !.outcome = "returned",
            !.result = [translation |-> Some(j.translated_html),
                        analysis |-> Some(clean_text(ContentList(content), FALSE))]]

(***************************************************************************)
(* main                                                                    *)
(***************************************************************************)
\* lines 220-228
InitialSession ==
  [input_text |-> None, translation |-> None, analysis |-> None, last_url |-> None]

\* lines 267-268: the article was fetched
Fetched(s, url, text) == [s EXCEPT !.input_text = Some(text), !.last_url = Some(url)]

\* the fetch raised and the text held from before is kept
FetchFailedKeepsText(s) == s

\* lines 269-271: the fetch raised
FetchFailed(s) == [s EXCEPT !.input_text = None]

\* lines 280-281
Pasted(s, input_text) ==
  IF input_text # <<>> THEN [s EXCEPT !.input_text = Some(input_text)] ELSE s

\* the results are stored whatever was returned
StoreAlways(s, result) ==
  [s EXCEPT !.translation = result.translation, !.analysis = result.analysis]

\* lines 293-295
Store(s, result) ==
  IF Truthy(result.translation)
  THEN [s EXCEPT !.translation = result.translation, !.analysis = result.analysis]
  ELSE s

\* lines 284-292: the Translate button
Button(s, clicked, direction, preserve_html, client) ==
  IF clicked /\ Truthy(s.input_text)
  THEN Start(s.input_text.val, from_lang(direction), to_lang(direction), preserve_html,
             client)
  ELSE IdleJob

\* line 214 where the function raised before its first Gateway call, errors
\* being the messages the run has shown so far
Shown(j, errors) ==
  IF j.outcome = "raised" THEN st_error(errors, TranslationError \o j.error) ELSE errors

\* the run did not call requests.get / waits for its reply
NoFetch == [kind |-> "none", html |-> <<>>, detail |-> <<>>]
Pending == [kind |-> "pending", html |-> <<>>, detail |-> <<>>]

\* what one script run reads: the widgets, the reply to requests.get if the
\* run fetched, and what fetch_cicero_article made of the reply
Inputs(method, value, clicked, direction, preserve_html, reply) ==
  [input_method |-> method, value |-> value, clicked |-> clicked,
   direction |-> direction, preserve_html |-> preserve_html, reply |-> reply,
   got |-> Returned(<<>>)]

\* the first script run: no URL entered, the first direction, "Preserve HTML
\* structure" checked (lines 237-256)
Init ==
  /\ session = InitialSession
  /\ run = Inputs("Paste URL", <<>>, FALSE, Norwegian \o Arrow \o English, TRUE, NoFetch)
  /\ job = IdleJob
  /\ shown = <<>>
  /\ probe = [stage |-> "none", text |-> StrText(<<>>), preserve_html |-> FALSE,
              once |-> <<>>, twice |-> <<>>]

\* lines 265-271: the fetch returned the article text or raised
AfterFetch(s, url, got) == IF got.ok THEN Fetched(s, url, got.text) ELSE FetchFailed(s)

\* a script run with "Paste URL" chosen starts (lines 232-264).  Where a URL
\* is entered that is not the last one fetched, requests.get is called and
\* the run waits for its reply; else the run goes on to the button, which
\* reads the session as it is.
RunUrl ==
  \E url \in {<<>>, <<"u">>}, clicked \in BOOLEAN, direction \in Directions,
     preserve_html \in BOOLEAN, client \in ClientOutcomes :
    /\ job.pc = "idle"
    /\ run.reply.kind # "pending"
    /\ IF url # <<>> /\ Some(url) # session.last_url
       THEN /\ run' = Inputs("Paste URL", url, clicked, direction, preserve_html, Pending)
            /\ job' = IdleJob
            /\ shown' = <<>>
       ELSE /\ run' = Inputs("Paste URL", url, clicked, direction, preserve_html, NoFetch)
            /\ job' = Button(session, clicked, direction, preserve_html, client)
            /\ shown' = Shown(job', <<>>)
    /\ UNCHANGED <<session, probe>>

\* the reply to requests.get arrives (line 10 on): the article is stored or
\* the error is shown (lines 265-271), then the button, which reads the
\* session as the fetch left it
FetchReply ==
  \E reply \in FetchReplies, client \in ClientOutcomes :
    /\ run.reply.kind = "pending"
    /\ run' = [run EXCEPT !.reply = reply, !.got = fetch_cicero_article(reply)]
    /\ session' = AfterFetch(session, run.value, run'.got)
    /\ job' = Button(session', run.clicked, run.direction, run.preserve_html, client)
    /\ shown' = Shown(job', IF run'.got.ok THEN <<>>
                            ELSE st_error(<<>>, ErrorFetching \o run'.got.error))
    /\ UNCHANGED probe

\* a script run with "Paste Content" chosen (lines 272-281, then the button)
RunPaste ==
  \E input_text \in PastedTexts, clicked \in BOOLEAN, direction \in Directions,
     preserve_html \in BOOLEAN, client \in ClientOutcomes :
    /\ job.pc = "idle"
    /\ run.reply.kind # "pending"
    /\ run' = Inputs("Paste Content", input_text, clicked, direction, preserve_html, NoFetch)
    /\ session' = Pasted(session, input_text)
    /\ job' = Button(session', clicked, direction, preserve_html, client)
    /\ shown' = Shown(job', <<>>)
    /\ UNCHANGED probe

\* the exception handler of lines 213-215, and the script run ends
Raise(e) ==
  /\ job' = [Except(job) EXCEPT !.error = e]
  /\ shown' = st_error(shown, TranslationError \o e)
  /\ session' = Store(session, Except(job).result)

\* the Gateway replies to the call of one element (lines 157-170)
ElementReply ==
  \E reply \in GatewayReplies :
    /\ job.pc = "element"
    /\ IF reply.ok
       THEN /\ job' = Loop(Merge(job, reply.content),
                           NextElement(job.elements, job.idx + 1))
            /\ UNCHANGED <<session, shown>>
       ELSE Raise(reply.error)
    /\ UNCHANGED <<run, probe>>

\* the Gateway replies to the single translation call (lines 183-193)
PlainReply ==
  \E reply \in GatewayReplies :
    /\ job.pc = "plain"
    /\ IF reply.ok
       THEN /\ job' = AskAnalysis([job EXCEPT !.calls = Settle(job.calls, "ok", reply.content)],
                                  clean_text(ContentList(reply.content), FALSE))
            /\ UNCHANGED <<session, shown>>
       ELSE Raise(reply.error)
    /\ UNCHANGED <<run, probe>>

\* the Gateway replies to the analysis call (lines 196-211, then 293-295)
AnalysisReply ==
  \E reply \in GatewayReplies :
    /\ job.pc = "analysis"
    /\ IF reply.ok
       THEN /\ job' = Return(job, reply.content)
            /\ session' = Store(session, Return(job, reply.content).result)
            /\ UNCHANGED shown
       ELSE Raise(reply.error)
    /\ UNCHANGED <<run, probe>>

Next == RunUrl \/ FetchReply \/ RunPaste \/ ElementReply \/ PlainReply \/ AnalysisReply

Spec == Init /\ [][Next]_vars

(***************************************************************************)
(* Properties of the translate action and of the session (under Spec).     *)
(***************************************************************************)
Calls(kind) == {k \in 1..Len(job.calls) : job.calls[k].kind = kind}

FailedCalls == {k \in 1..Len(job.calls) : job.calls[k].status = "error"}

\* the function ended before its first Gateway call (lines 125 and 128 raise
\* inside the try block)
Abandoned == job.outcome = "raised" /\ job.calls = <<>>

\* every call but the last one issued was answered without error
EarlierCallsSucceeded ==
  \A k \in 1..(Len(job.calls) - 1) : job.calls[k].status = "ok"

\* C1: when a Gateway call of a Translate action fails (a translation call, a
\* per-element call or the analysis call), the action is over, exactly one
\* error message is shown to the user, and the action returns (None, None).
C1_FailureSurfacedOnce ==
  FailedCalls # {} =>
    /\ job.pc = "idle"
    /\ job.result.translation = None
    /\ job.result.analysis = None
    /\ Len(shown) = 1
    /\ \E e \in GatewayErrors : shown[1] = TranslationError \o e

\* every translation call had succeeded when the analysis call failed
C1_Witness ==
  /\ Len(job.calls) >= 3
  /\ \A k \in 1..(Len(job.calls) - 1) :
       job.calls[k].kind = "translation" /\ job.calls[k].status = "ok"
  /\ job.calls[Len(job.calls)].kind = "analysis"
  /\ job.calls[Len(job.calls)].status = "error"
  /\ job.result = NoResult
  /\ Len(shown) = 1

\* C2: clicking Translate while the current input is empty makes no call to
\* the Gateway and shows an empty-input notice.
C2_EmptyInputRejected ==
  (run.clicked /\ run.value = <<>>) => (job.calls = <<>> /\ shown # <<>>)

RECURSIVE Merged(_, _)
\* the input with the replies to the calls of the first k elements merged in order
Merged(j, k) ==
  IF k = 0 THEN j.input_text
  ELSE Replace(Merged(j, k - 1), j.elements[k].text,
               clean_text(ContentList(j.calls[k].content), FALSE))

\* C3: in preserve-HTML mode the elements are sent one at a time in
\* extraction order, the call of an element is issued only when the replies
\* to all earlier elements were received and merged, and when a call fails
\* no later element is sent and no partial translation is returned.
C3_SequentialAllOrNothing ==
  job.preserve_html =>
    /\ EarlierCallsSucceeded
    /\ ~Abandoned =>
         job.elements = extract_translatable_content(job.input_text).elements
    /\ \A k \in Calls("translation") :
         /\ k <= Len(job.elements)
         /\ job.calls[k].message =
              ElementMessage(job.elements[k], job.from_lang, job.to_lang)
    /\ job.pc = "element" =>
         /\ job.idx = Len(job.calls)
         /\ job.translated_html = Merged(job, job.idx - 1)
    /\ (FailedCalls \cap Calls("translation") # {}) =>
         /\ job.pc = "idle"
         /\ job.result.translation = None
         /\ job.result.analysis = None

\* a document of three elements whose second call failed after the first
\* translation had been merged
C3_Witness ==
  /\ job.preserve_html
  /\ Len(job.elements) = 3
  /\ Len(job.calls) = 2
  /\ job.calls[1].status = "ok"
  /\ job.calls[2].kind = "translation"
  /\ job.calls[2].status = "error"
  /\ job.translated_html # job.input_text
  /\ job.result = NoResult

\* C4: whatever the error kind, the first failed Gateway call is the last call
\* of the action (no repeat, no remaining translation call, no analysis
\* call), and the analysis call is issued at most once and only after every
\* translation call of the action succeeded.
C4_NoRetryNoFurtherCall ==
  /\ EarlierCallsSucceeded
  /\ FailedCalls # {} => job.pc = "idle" /\ job.outcome = "raised"
  /\ Cardinality(Calls("translation")) <=
       (IF job.preserve_html THEN Len(job.elements) ELSE 1)
  /\ Cardinality(Calls("analysis")) <= 1
  /\ \A k \in Calls("analysis") :
       /\ k = Len(job.calls)
       /\ \A m \in 1..(k - 1) : job.calls[m].kind = "translation"
       /\ Cardinality(Calls("translation")) =
            (IF job.preserve_html THEN Len(job.elements) ELSE 1)

\* the single translation call of plain mode failed, rate limited, and
\* nothing followed it
C4_Witness ==
  /\ ~job.preserve_html
  /\ Len(job.calls) = 1
  /\ job.calls[1].status = "error"
  /\ job.outcome = "raised"
  /\ shown = <<TranslationError
                \o <<"R", "a", "t", "e", "L", "i", "m", "i", "t", "e", "d">> >>

NoContent == run.got = Raised(ErrorProcessing \o NoArticleContent)

\* C5: a failed retrieval and a retrieval without article content are each
\* reported, with messages that differ, and both abort: the held input text
\* is cleared and a Translate click in the same run issues no Gateway call.
C5_FetchFailuresAbort ==
  /\ run.reply.kind = "RequestException" =>
       /\ shown = <<ErrorFetching \o FailedToFetch \o run.reply.detail>>
       /\ shown[1] # ErrorFetching \o ErrorProcessing \o NoArticleContent
  /\ NoContent =>
       /\ shown = <<ErrorFetching \o ErrorProcessing \o NoArticleContent>>
       /\ ~Contains(shown[1], FailedToFetch)
  /\ (run.reply.kind = "RequestException" \/ NoContent) =>
       /\ session.input_text = None
       /\ job.pc = "idle"
       /\ job.calls = <<>>

\* the page had no article content, Translate was clicked in that run, and a
\* text translated earlier in the session had been held until then
C5_Witness ==
  /\ NoContent
  /\ run.clicked
  /\ Truthy(session.translation)
  /\ session.input_text = None
  /\ job.calls = <<>>

\* C8: every translation prompt sent contains the literal input text and
\* names the target language, and the first call a Translate action sends is
\* one, in plain mode and in preserve-HTML mode.
C8_PromptHasInput ==
  /\ \A k \in Calls("translation") :
       /\ Contains(job.calls[k].message, job.input_text)
       /\ Contains(job.calls[k].message, job.to_lang)
  /\ (job.outcome # "none" /\ job.calls # <<>>) => job.calls[1].kind = "translation"

\* C9: the analysis prompt contains the source text and the translated text
\* of the action.
C9_AnalysisPromptHasTexts ==
  \A k \in Calls("analysis") :
    /\ Contains(job.calls[k].message, job.input_text)
    /\ Contains(job.calls[k].message, job.translated_html)

\* C10: session.translation and session.analysis are written only at the end
\* of a Translate action that returned a non-empty translation, both in that
\* step and with the returned pair; a Translate action that failed, returned
\* an empty translation or was skipped leaves both as they were.
C10_ResultsWrittenTogether ==
  [][/\ (session'.translation # session.translation
          \/ session'.analysis # session.analysis) =>
            /\ job.pc = "analysis"
            /\ job'.outcome = "returned"
            /\ Truthy(job'.result.translation)
            /\ session'.translation = job'.result.translation
            /\ session'.analysis = job'.result.analysis
     /\ (job'.pc = "idle" /\ ~Truthy(job'.result.translation)) =>
            /\ session'.translation = session.translation
            /\ session'.analysis = session.analysis]_vars

\* an action returned an empty translation and the results of an earlier
\* action are still held
C10_Witness ==
  /\ job.outcome = "returned"
  /\ job.result.translation = Some(<<>>)
  /\ Truthy(session.translation)
  /\ Truthy(session.analysis)

(***************************************************************************)
(* clean_text on its own: an input is drawn, cleaned, and cleaned again.   *)
(***************************************************************************)
InnerTexts ==
  {<<"H", "e", "l", "l", "o", " ", "w", "o", "r", "l", "d">>,
   <<"C", "l", "i", "m", "a", "t", "e", " ", "c", "h", "a", "n", "g", "e", " ", "i", "s",
     " ", "a", " ", "m", "a", "j", "o", "r", " ", "c", "h", "a", "l", "l", "e", "n", "g",
     "e", ".">>}

\* TextBlock(text='t') and TextBlock(text='t', type='text'), in either quoting
Wrappings(t) ==
  {TextBlockOpen \o <<q>> \o t \o <<q>> \o m \o <<")">> :
     q \in {"'", "\""},
     m \in {<<>>} \cup {<<",", " ", "t", "y", "p", "e", "=", r, "t", "e", "x", "t", r>> :
                          r \in {"'", "\""}}}

\* what clean_text is given: the strings of at most MaxPieces characters of
\* its patterns, and raw responses: one wrapped text as a string, or a list
\* of one or two
ProbeInputs ==
  {StrText(t) : t \in UNION {[1..n -> {"(", ")", "*", " ", "\n", "a", "B", ".", ">"}] :
                               n \in 0..MaxPieces}}
  \cup UNION {{StrText(w), ListText(<<w>>)} : w \in UNION {Wrappings(t) : t \in InnerTexts}}
  \cup {ListText(<<v, w>>) : v \in Wrappings(CHOOSE t \in InnerTexts : Len(t) < 12),
                            w \in UNION {Wrappings(t) : t \in InnerTexts}}

InitClean ==
  /\ session = InitialSession
  /\ run = Inputs("Paste URL", <<>>, FALSE, Norwegian \o Arrow \o English, TRUE, NoFetch)
  /\ job = IdleJob
  /\ shown = <<>>
  /\ probe \in {[stage |-> "input", text |-> x, preserve_html |-> p,
                  once |-> <<>>, twice |-> <<>>] : x \in ProbeInputs, p \in BOOLEAN}

\* clean_text(x, p)
Clean ==
  /\ probe.stage = "input"
  /\ probe' = [probe EXCEPT !.stage = "cleaned",
                            !.once = clean_text(probe.text, probe.preserve_html)]
  /\ UNCHANGED <<session, run, job, shown>>

\* clean_text(clean_text(x, p), p)
CleanAgain ==
  /\ probe.stage = "cleaned"
  /\ probe' = [probe EXCEPT !.stage = "again",
                            !.twice = clean_text(StrText(probe.once), probe.preserve_html)]
  /\ UNCHANGED <<session, run, job, shown>>

NextClean == Clean \/ CleanAgain

SpecClean == InitClean /\ [][NextClean]_vars

(***************************************************************************)
(* Properties of clean_text (under SpecClean).                             *)
(***************************************************************************)
\* C6: clean_text is idempotent: cleaning a cleaned string changes nothing,
\* for either value of preserve_html.
C6_Idempotent ==
  probe.stage = "again" => probe.twice = probe.once

\* C7: a response of the shape TextBlock(text='T'), in either quoting, with or
\* without trailing metadata, as a string or as a list of such fragments, is
\* cleaned to exactly T (the texts joined by one space for a list).
C7_WrapperRemoved ==
  probe.stage # "input" =>
    /\ \A t \in InnerTexts : \A w \in Wrappings(t) :
         probe.text \in {StrText(w), ListText(<<w>>)} => probe.once = t
    /\ \A t \in InnerTexts, u \in InnerTexts :
         \A v \in Wrappings(t), w \in Wrappings(u) :
           probe.text = ListText(<<v, w>>) => probe.once = t \o <<" ">> \o u

=============================================================================
